---- MODULE Spec2Model ----
(***************************************************************************)
(* State-machine model of the HTML -> ADF builder of subseq-adf-convert    *)
(* (src/html_to_adf.rs with the tag handlers of src/handlers/*.rs) and of  *)
(* the ADF -> HTML renderer (src/adf_to_html.rs) it round-trips against.   *)
(*                                                                         *)
(* Conventions                                                             *)
(*   - Option<T>:  None is <<>>, Some(x) is <<x>>.                         *)
(*   - String:     a sequence of one-character strings.                    *)
(*   - A panic is a builder state with panic = TRUE; nothing runs after it.*)
(*   - Handlers are operators from builder state to builder state; their   *)
(*     boolean return value is the field ret.                              *)
(*   - The handlers call ADFBuilder::push_block_to_parent; html_to_adf.rs  *)
(*     splits that function in push_node_block_to_parent (block nodes) and *)
(*     push_node_to_parent (inline nodes).  A call is modelled by the one  *)
(*     that accepts the node's type.  Likewise TableBlock(Cell|Header, _)  *)
(*     in rule_start_handler is TableBlockCell / TableBlockHeader.         *)
(*   - The writes to state.preformatted and state.heavy_trim in base.rs    *)
(*     have no field in ADFBuilderState and nothing reads them.            *)
(***************************************************************************)
EXTENDS Integers, Sequences, FiniteSets, TLC

VARIABLES
    stack,             \* ADFBuilderState.stack: Vec<BlockContext>
    mark_stack,        \* ADFBuilderState.mark_stack: Vec<AdfMark>
    current_text,      \* ADFBuilderState.current_text: String
    custom_block_id,   \* ADFBuilderState.custom_block_id: Option<LocalId>
    custom_block_tag,  \* ADFBuilderState.custom_block_tag: Option<String>
    status,            \* "running", "panicked" (conversion aborted), "emitted"
    doc,               \* the value returned by emit (None until then)
    last,              \* the last token processed and the handlers it ran
    nev,               \* number of tokens processed so far
    input,             \* tokens not yet fed to the builder (round-trip runs)
    src,               \* the document the round-trip run started from
    dom,               \* RcDom: the nodes of the document, by node number
    parsed,            \* the nodes as parse_document built them
    output             \* Option: the serialized document tree

vars == <<stack, mark_stack, current_text, custom_block_id, custom_block_tag,
          status, doc, last, nev, input, src, dom, parsed, output>>

\* the variables of the builder, which the sanitizer never touches
builder_vars == <<stack, mark_stack, current_text, custom_block_id, custom_block_tag,
                  status, doc, last, nev, input, src>>

-----------------------------------------------------------------------------
(* Bounds *)

MaxEvents == 4
MaxTableEvents == 6
MaxMarkEvents == 5

-----------------------------------------------------------------------------
(* Generic helpers *)

None == <<>>
Some(x) == <<x>>
IsSome(o) == o # <<>>
Unwrap(o) == o[1]

Last(s) == s[Len(s)]
Front(s) == SubSeq(s, 1, Len(s) - 1)

RECURSIVE Concat(_)
Concat(ss) == IF ss = <<>> THEN <<>> ELSE Head(ss) \o Concat(Tail(ss))

Range(s) == {s[i] : i \in 1..Len(s)}

\* HashMap<String, String>::get
Get(attrs, name) == IF name \in DOMAIN attrs THEN Some(attrs[name]) ELSE None
NoAttrs == [x \in {} |-> ""]

-----------------------------------------------------------------------------
(* Strings *)

IsWhitespace(c) == c \in {" ", "\n", "\t"}

RECURSIVE TrimStart(_)
TrimStart(t) ==
    IF t = <<>> THEN <<>>
    ELSE IF IsWhitespace(Head(t)) THEN TrimStart(Tail(t)) ELSE t

RECURSIVE TrimEnd(_)
TrimEnd(t) ==
    IF t = <<>> THEN <<>>
    ELSE IF IsWhitespace(Last(t)) THEN TrimEnd(Front(t)) ELSE t

\* str::trim
Trim(t) == TrimEnd(TrimStart(t))

\* the "From left" loop of clean_surrounding_text; the result is `start`
RECURSIVE LeftCut(_, _)
LeftCut(text, i) ==
    IF i > Len(text) THEN 0
    ELSE IF text[i] = "\n" THEN i
    ELSE IF ~IsWhitespace(text[i]) THEN 0
    ELSE LeftCut(text, i + 1)

\* the "From right" loop of clean_surrounding_text; the result is `end`
RECURSIVE RightCut(_, _)
RightCut(text, i) ==
    IF i < 1 THEN Len(text)
    ELSE IF text[i] = "\n" THEN i - 1
    ELSE IF ~IsWhitespace(text[i]) THEN Len(text)
    ELSE RightCut(text, i - 1)

\* a faulty variant: the right cut is taken at the last newline whatever
\* follows it
clean_surrounding_text_cutting(text) ==
    LET start == LeftCut(text, 1)
        newlines == { i \in 1..Len(text) : text[i] = "\n" }
        end == IF newlines = {} THEN Len(text)
               ELSE (CHOOSE i \in newlines : \A j \in newlines : j <= i) - 1
    IN IF start > end THEN <<>> ELSE SubSeq(text, start + 1, end)

clean_surrounding_text(text) ==
    LET start == LeftCut(text, 1)
        end == RightCut(text, Len(text))
    IN IF start > end THEN <<>> ELSE SubSeq(text, start + 1, end)

-----------------------------------------------------------------------------
(* Document model: AdfNode, AdfBlockNode, AdfMark *)

Mark(m) == [m |-> m]
LinkMark(href) == [m |-> "Link", href |-> href]
TextColor(color) == [m |-> "TextColor", color |-> color]
BackgroundColor(color) == [m |-> "BackgroundColor", color |-> color]

Text(text, marks) == [t |-> "Text", text |-> text, marks |-> marks]
HardBreak == [t |-> "HardBreak"]

Paragraph(content) == [t |-> "Paragraph", content |-> content]
Heading(level, content) == [t |-> "Heading", level |-> level, content |-> content]
Blockquote(content) == [t |-> "Blockquote", content |-> content]
CodeBlock(attrs, content) == [t |-> "CodeBlock", attrs |-> attrs, content |-> content]
BulletList(content) == [t |-> "BulletList", content |-> content]
OrderedList(attrs, content) == [t |-> "OrderedList", attrs |-> attrs, content |-> content]
TaskList(local_id, content) == [t |-> "TaskList", local_id |-> local_id, content |-> content]
DecisionList(local_id, content) == [t |-> "DecisionList", local_id |-> local_id, content |-> content]
ListItem(content) == [t |-> "ListItem", content |-> content]
TaskItem(content, state, local_id) ==
    [t |-> "TaskItem", content |-> content, state |-> state, local_id |-> local_id]
DecisionItem(content, local_id) ==
    [t |-> "DecisionItem", content |-> content, local_id |-> local_id, state |-> "DECIDED"]
Rule == [t |-> "Rule"]
Table(attrs, content) == [t |-> "Table", attrs |-> attrs, content |-> content]
TableRow(content) == [t |-> "TableRow", content |-> content]
TableCell(content, attrs) == [t |-> "TableCell", content |-> content, attrs |-> attrs]
TableHeader(content, attrs) == [t |-> "TableHeader", content |-> content, attrs |-> attrs]
Expand(title, content) == [t |-> "Expand", title |-> title, content |-> content]
NestedExpand(title, content) == [t |-> "NestedExpand", title |-> title, content |-> content]
Panel(panel_type, content) == [t |-> "Panel", panel_type |-> panel_type, content |-> content]
Doc(content, version) == [t |-> "Doc", content |-> content, version |-> version]

-----------------------------------------------------------------------------
(* BlockContext: the frames of the builder's stack *)

Frame(k, nodes) == [k |-> k, nodes |-> nodes]
Document(nodes) == Frame("Document", nodes)
HeadingFrame(level, nodes) == [k |-> "Heading", level |-> level, nodes |-> nodes]
CustomBlock(ty, nodes, attrs) ==
    [k |-> "CustomBlock", ty |-> ty, nodes |-> nodes, attrs |-> attrs]
MediaBlock(ty, nodes, attrs) ==
    [k |-> "MediaBlock", ty |-> ty, nodes |-> nodes, attrs |-> attrs]
PendingList(nodes, ordered, local_id, local_tag) ==
    [k |-> "PendingList", nodes |-> nodes, ordered |-> ordered,
     local_id |-> local_id, local_tag |-> local_tag]
TaskItemFrame(nodes, state, local_id) ==
    [k |-> "TaskItem", nodes |-> nodes, state |-> state, local_id |-> local_id]
DecisionItemFrame(nodes, local_id) ==
    [k |-> "DecisionItem", nodes |-> nodes, local_id |-> local_id]

IsCustom(f, tys) == f.k = "CustomBlock" /\ f.ty \in tys

-----------------------------------------------------------------------------
(* Builder state as a value, and the plumbing of panics *)

\* ADFBuilder::new: the state the builder is constructed with
NewState ==
    [stack |-> <<Document(<<>>)>>, mark_stack |-> <<>>, current_text |-> <<>>,
     custom_block_id |-> None, custom_block_tag |-> None,
     panic |-> FALSE, ret |-> TRUE]

Cur == [stack |-> stack, mark_stack |-> mark_stack, current_text |-> current_text,
        custom_block_id |-> custom_block_id, custom_block_tag |-> custom_block_tag,
        panic |-> FALSE, ret |-> TRUE]

Panic(s) == [s EXCEPT !.panic = TRUE]
Ret(s, b) == [s EXCEPT !.ret = b]

\* run F unless the conversion has already aborted
Then(s, F(_)) == IF s.panic THEN s ELSE F(s)

\* Vec::pop / Vec::push / last_mut on state.stack
Pop(s) == [s EXCEPT !.stack = Front(s.stack)]
Push(s, f) == [s EXCEPT !.stack = Append(s.stack, f)]
Top(s) == Last(s.stack)
HasTop(s) == s.stack # <<>>
\* frame.nodes.push(node) on the top frame
PushChild(s, node) ==
    [s EXCEPT !.stack[Len(s.stack)].nodes = Append(@, node)]

-----------------------------------------------------------------------------
(* flush_text *)

\* ADFBuilder::push_into_last_paragraph
\* push_into_last_paragraph opening a new paragraph for every inline node
push_into_last_paragraph_always_new(nodes, adf_node) ==
    Append(nodes, Paragraph(Some(<<adf_node>>)))

push_into_last_paragraph(nodes, adf_node) ==
    IF nodes # <<>> /\ Last(nodes).t = "Paragraph"
    THEN LET p == Last(nodes)
             content == IF IsSome(p.content)
                        THEN Some(Append(Unwrap(p.content), adf_node))
                        ELSE Some(<<adf_node>>)
         IN Append(Front(nodes), Paragraph(content))
    ELSE Append(nodes, Paragraph(Some(<<adf_node>>)))

SetTopNodes(s, nodes) == [s EXCEPT !.stack[Len(s.stack)].nodes = nodes]

TrimKinds == {"Heading", "Paragraph", "TableBlockCell", "TableBlockHeader",
              "Blockquote", "ListItem"}

flush_text(s) ==
    IF s.current_text = <<>> THEN s
    ELSE
      LET taken == [s EXCEPT !.current_text = <<>>]
          trim_for_blocks == HasTop(s) /\ Top(s).k \in TrimKinds
          text == IF trim_for_blocks THEN clean_surrounding_text(s.current_text)
                  ELSE s.current_text
          marks == IF s.mark_stack = <<>> THEN None ELSE Some(s.mark_stack)
      IN IF Trim(text) = <<>> THEN taken
         ELSE IF ~HasTop(s) THEN taken
         ELSE LET k == Top(s).k IN
           CASE k \in {"Paragraph", "Heading"} ->
                  PushChild(taken, Text(text, marks))
             [] k \in {"ListItem", "Blockquote", "TableBlockHeader", "TableBlockCell"} ->
                  SetTopNodes(taken, push_into_last_paragraph(Top(s).nodes, Text(text, marks)))
             [] k \in {"TaskItem", "DecisionItem"} ->
                  PushChild(taken, Text(Trim(text), marks))
             [] k = "CodeBlock" ->
                  PushChild(taken, text)
             [] OTHER -> taken

\* ADFBuilder::pop_mark: remove the last mark that satisfies pred
RECURSIVE RPosition(_, _, _)
RPosition(marks, kinds, i) ==
    IF i < 1 THEN 0
    ELSE IF marks[i].m \in kinds THEN i
    ELSE RPosition(marks, kinds, i - 1)

RemoveAt(seq, pos) == SubSeq(seq, 1, pos - 1) \o SubSeq(seq, pos + 1, Len(seq))

pop_mark(s, kinds) ==
    LET pos == RPosition(s.mark_stack, kinds, Len(s.mark_stack))
    IN IF pos = 0 THEN s ELSE [s EXCEPT !.mark_stack = RemoveAt(@, pos)]

-----------------------------------------------------------------------------
(* close_current_block, close_current_list_item *)

BlockParentKinds == {"Document", "TableBlockCell", "TableBlockHeader",
                     "Blockquote", "ListItem"}
ContainerCustomTypes == {"Div", "Expand", "NestedExpand", "Panel"}

\* the item filters of the PendingList arm
IsTaskItem(item) == item.t = "TaskItem"
IsDecisionItem(item) == item.t = "DecisionItem"
IsListItem(item) == item.t = "ListItem"

\* Option<String>::unwrap_or_default
UnwrapOrDefault(o) == IF IsSome(o) THEN Unwrap(o) ELSE ""

\* PendingListNode without the filter_map over the items
PendingListNode_unfiltered(frame) ==
    LET is_task_list == IsSome(frame.local_tag) /\ Unwrap(frame.local_tag) = "task-list"
        is_decision_list ==
            IsSome(frame.local_tag) /\ Unwrap(frame.local_tag) = "decision-list"
    IN IF is_task_list
       THEN TaskList(UnwrapOrDefault(frame.local_id), frame.nodes)
       ELSE IF is_decision_list
       THEN DecisionList(UnwrapOrDefault(frame.local_id), frame.nodes)
       ELSE IF frame.ordered
       THEN OrderedList(None, frame.nodes)
       ELSE BulletList(frame.nodes)

\* the node a PendingList frame turns into
PendingListNode(frame) ==
    LET is_task_list == IsSome(frame.local_tag) /\ Unwrap(frame.local_tag) = "task-list"
        is_decision_list ==
            IsSome(frame.local_tag) /\ Unwrap(frame.local_tag) = "decision-list"
    IN IF is_task_list
       THEN TaskList(UnwrapOrDefault(frame.local_id), SelectSeq(frame.nodes, IsTaskItem))
       ELSE IF is_decision_list
       THEN DecisionList(UnwrapOrDefault(frame.local_id),
                         SelectSeq(frame.nodes, IsDecisionItem))
       ELSE IF frame.ordered
       THEN OrderedList(None, SelectSeq(frame.nodes, IsListItem))
       ELSE BulletList(SelectSeq(frame.nodes, IsListItem))

\* the parents the Paragraph arm accepts
ParagraphParentOk(parent) ==
    \/ parent.k \in BlockParentKinds
    \/ IsCustom(parent, ContainerCustomTypes)

\* the parents the Expand arm accepts
ExpandParentOk(parent) ==
    \/ parent.k \in {"Document", "TableBlockCell", "TableBlockHeader", "ListItem",
                     "Blockquote"}
    \/ IsCustom(parent, ContainerCustomTypes)

\* the parents the CodeBlock arm accepts
CodeBlockParentOk(parent) ==
    \/ parent.k \in {"Document", "TableBlockCell", "TableBlockHeader", "ListItem",
                     "Blockquote"}
    \/ IsCustom(parent, {"Div"})

\* the parents the Blockquote arm accepts
BlockquoteParentOk(parent) ==
    \/ parent.k \in {"Document", "TableBlockCell", "TableBlockHeader", "ListItem"}
    \/ IsCustom(parent, {"Div"})

\* the parents the PendingList arm accepts
PendingListParentOk(parent) ==
    \/ parent.k \in {"Document", "Blockquote", "TableBlockCell", "TableBlockHeader",
                     "ListItem"}
    \/ IsCustom(parent, {"Div"})

close_current_block(s) ==
    IF ~HasTop(s) THEN Panic(s)                       \* expect("Expected a block context")
    ELSE
      LET frame == Top(s)
          p == Pop(s)
      IN IF ~HasTop(p) THEN Panic(p)                  \* expect("Document should always be present")
         ELSE
           LET parent == Top(p) IN
           CASE frame.k = "Paragraph" ->
                  IF parent.k \in BlockParentKinds
                  THEN IF frame.nodes = <<>> THEN p
                       ELSE PushChild(p, Paragraph(Some(frame.nodes)))
                  ELSE IF ParagraphParentOk(parent)
                  THEN PushChild(p, Paragraph(Some(frame.nodes)))
                  ELSE Panic(p)
             [] IsCustom(frame, {"Expand"}) ->
                  IF ExpandParentOk(parent)
                  THEN PushChild(p, Expand(Get(frame.attrs, "title"), frame.nodes))
                  ELSE Panic(p)
             [] frame.k = "CodeBlock" ->
                  IF CodeBlockParentOk(parent)
                  THEN PushChild(p, CodeBlock(None,
                                   Some(<<Text(Concat(frame.nodes), None)>>)))
                  ELSE Panic(p)
             [] frame.k = "Blockquote" ->
                  IF BlockquoteParentOk(parent)
                  THEN PushChild(p, Blockquote(frame.nodes))
                  ELSE Panic(p)
             [] frame.k = "PendingList" ->
                  IF PendingListParentOk(parent)
                  THEN PushChild(p, PendingListNode(frame))
                  ELSE Panic(p)
             [] OTHER -> Panic(p)       \* "closed incorrectly; must use block-specific close method"

close_current_list_item(s) ==
    LET f == flush_text(s) IN
    IF ~HasTop(f) THEN Panic(f)                       \* "Invalid context for ListItem close"
    ELSE
      LET stack_item == Top(f)
          p == Pop(f)
          parent_is_list == HasTop(p) /\ Top(p).k = "PendingList"
      IN CASE stack_item.k = "ListItem" ->
                IF parent_is_list THEN PushChild(p, ListItem(stack_item.nodes))
                ELSE Panic(p)
           [] stack_item.k = "TaskItem" ->
                IF parent_is_list
                THEN PushChild(p, TaskItem(stack_item.nodes, stack_item.state,
                                           stack_item.local_id))
                ELSE Panic(p)
           [] stack_item.k = "DecisionItem" ->
                IF parent_is_list
                THEN PushChild(p, DecisionItem(stack_item.nodes, stack_item.local_id))
                ELSE Panic(p)
           [] OTHER -> Panic(p)

-----------------------------------------------------------------------------
(* push_inline, push_node_block_to_parent, push_node_to_parent *)

push_inline(s, node) ==
    IF ~HasTop(s) THEN s
    ELSE LET k == Top(s).k IN
      CASE k = "CodeBlock" -> PushChild(s, <<"\n">>)
        [] k \in {"Paragraph", "Heading", "DecisionItem", "TaskItem"} -> PushChild(s, node)
        [] k \in {"Blockquote", "ListItem"} ->
             SetTopNodes(s, push_into_last_paragraph(Top(s).nodes, node))
        [] OTHER -> s

flush_text_and_push_inline(s, node) == push_inline(flush_text(s), node)

BlockTargetOk(frame) ==
    \/ frame.k \in {"Document", "Blockquote", "ListItem", "TableBlockCell",
                    "TableBlockHeader"}
    \/ IsCustom(frame, {"Panel", "Expand", "NestedExpand", "Div"})

IsEmptyParagraph(node) ==
    /\ node.t = "Paragraph"
    /\ (node.content = None \/ Unwrap(node.content) = <<>>)

RECURSIVE push_node_block_to_parent(_, _)
push_node_block_to_parent(s, node) ==
    IF ~HasTop(s) THEN Panic(s)    \* expect("There should always be at least the Document node")
    ELSE LET frame == Top(s) IN
      IF BlockTargetOk(frame)
      THEN IF IsEmptyParagraph(node) THEN s ELSE PushChild(s, node)
      ELSE IF frame.k = "Paragraph"
      THEN IF frame.nodes # <<>> THEN Panic(s)
           ELSE push_node_block_to_parent(Pop(s), node)
      ELSE Panic(s)

push_node_to_parent(s, node) ==
    IF ~HasTop(s) THEN Panic(s)
    ELSE LET frame == Top(s) IN
      CASE frame.k \in {"Paragraph", "Heading"} -> PushChild(s, node)
        [] frame.k \in {"Blockquote", "ListItem", "Document", "TableBlockCell",
                        "TableBlockHeader"} ->
             SetTopNodes(s, push_into_last_paragraph(frame.nodes, node))
        [] frame.k = "CustomBlock" ->
             IF frame.ty \in {"Div", "Expand", "Panel"}
             THEN SetTopNodes(s, push_into_last_paragraph(frame.nodes, node))
             ELSE Panic(s)
        [] OTHER -> Panic(s)

\* ADFBuilder::extract_text
extract_text(paragraph) ==
    IF paragraph.t = "Paragraph" /\ IsSome(paragraph.content)
    THEN LET IsText(n) == n.t = "Text"
             texts == SelectSeq(Unwrap(paragraph.content), IsText)
         IN Concat([i \in 1..Len(texts) |-> texts[i].text])
    ELSE <<>>

\* extract_style over a style attribute given as its rules <<name, value>>, in
\* the order split(';') yields them: the value of the first rule named property
RECURSIVE extract_style(_, _)
extract_style(style, property) ==
    IF style = <<>> THEN None
    ELSE IF Head(style)[1] = property THEN Some(Head(style)[2])
    ELSE extract_style(Tail(style), property)

-----------------------------------------------------------------------------
(* emit *)

RECURSIVE CloseAll(_)
CloseAll(s) ==
    IF s.panic \/ Len(s.stack) <= 1 THEN s
    ELSE CloseAll(close_current_block(s))

\* ADFBuilder::emit: the state after the loop; ret carries no meaning here
emit_state(s) == CloseAll(flush_text(s))

\* the node emit returns, or a panic when the bottom frame is not Document
emit_panics(s) ==
    LET e == emit_state(s)
    IN e.panic \/ e.stack = <<>> \/ e.stack[1].k # "Document"

emit_doc(s) == Doc(emit_state(s).stack[1].nodes, 1)

-----------------------------------------------------------------------------
(* Elements (tokenizer tags) *)

Element(tag, attrs) == [tag |-> tag, attrs |-> attrs]
El(tag) == Element(tag, NoAttrs)

\* str::to_ascii_lowercase on the strings of the model's alphabet
ToLower(v) == CASE v = "RED" -> "red" [] v = "COLOR" -> "color" [] OTHER -> v
LowerStyle(style) == [i \in 1..Len(style) |-> <<ToLower(style[i][1]), ToLower(style[i][2])>>]

\* v.trim().trim_end_matches("px").parse::<u32>().ok() on the model's strings
ParsePx(v) == CASE v = "10px" -> Some(10) [] v = "20px" -> Some(20) [] OTHER -> None

PushMark(s, mark) == [s EXCEPT !.mark_stack = Append(@, mark)]

-----------------------------------------------------------------------------
(* handlers/base.rs *)

\* hard_break_start_handler with the break pushed before the text is flushed
hard_break_start_handler_push_first(s, el) ==
    Ret(flush_text(push_inline(s, HardBreak)), TRUE)

hard_break_start_handler(s, el) == Ret(flush_text_and_push_inline(s, HardBreak), TRUE)

RuleClosedKinds == {"Paragraph", "ListItem", "Blockquote", "TableBlockCell",
                    "TableBlockHeader"}

\* the while loop of rule_start_handler
RECURSIVE CloseForRule(_)
CloseForRule(s) ==
    IF s.panic THEN s
    ELSE IF HasTop(s) /\ Top(s).k \in RuleClosedKinds
    THEN CloseForRule(close_current_block(s))
    ELSE s

rule_start_handler(s, el) ==
    LET PushRule(x) == push_node_block_to_parent(x, Rule)
    IN Ret(Then(CloseForRule(flush_text(s)), PushRule), TRUE)

InPre(s) == \E i \in 1..Len(s.stack) : s.stack[i].k = "CodeBlock"

code_start_handler(s, el) ==
    LET f == flush_text(s)
    IN Ret(IF ~InPre(f) THEN PushMark(f, Mark("Code")) ELSE f, TRUE)

\* code_end_handler without the test for an open code block
code_end_handler_always_pop(s, el) ==
    Ret(pop_mark(flush_text(s), {"Code"}), TRUE)

code_end_handler(s, el) ==
    LET f == flush_text(s)
    IN Ret(IF ~InPre(f) THEN pop_mark(f, {"Code"}) ELSE f, TRUE)

span_start_handler(s, el) ==
    LET f == flush_text(s)
        style_attr == Get(el.attrs, "style")
    IN IF IsSome(style_attr)
       THEN LET style == LowerStyle(Unwrap(style_attr))
                color == extract_style(style, "color")
                bg == extract_style(style, "background-color")
            IN Ret(IF IsSome(color) THEN PushMark(f, TextColor(Unwrap(color)))
                   ELSE IF IsSome(bg) THEN PushMark(f, BackgroundColor(Unwrap(bg)))
                   ELSE f, TRUE)
       ELSE Ret(f, TRUE)

div_start_handler(s, el) ==
    Ret(Push(flush_text(s), CustomBlock("Div", <<>>, el.attrs)), TRUE)

\* the `for node in nodes` loop of div_end_handler
RECURSIVE ForwardBlocks(_, _)
ForwardBlocks(s, nodes) ==
    IF s.panic \/ nodes = <<>> THEN s
    ELSE ForwardBlocks(push_node_block_to_parent(s, Head(nodes)), Tail(nodes))

div_end_handler(s, el) ==
    LET f == flush_text(s) IN
    IF ~HasTop(f) THEN Panic(f)
    ELSE IF ~IsCustom(Top(f), {"Div"}) THEN Panic(Pop(f))   \* "Mismatched div close tag"
    ELSE
      LET nodes == Top(f).nodes
          attrs == Top(f).attrs
          p == Pop(f)
          all_inline == \A i \in 1..Len(nodes) : nodes[i].t \in {"Text", "HardBreak"}
          paragraph == Paragraph(Some(nodes))
          style == Get(attrs, "style")
          color == IF IsSome(style) THEN extract_style(Unwrap(style), "color") ELSE None
          bg == IF IsSome(style) THEN extract_style(Unwrap(style), "background-color")
                ELSE None
          marks == (IF IsSome(color) THEN <<TextColor(Unwrap(color))>> ELSE <<>>)
                   \o (IF IsSome(bg) THEN <<BackgroundColor(Unwrap(bg))>> ELSE <<>>)
      IN IF nodes = <<>> THEN Ret(p, TRUE)
         ELSE IF all_inline
         THEN IF IsSome(color) \/ IsSome(bg)
              THEN Ret(push_node_to_parent(p, Text(extract_text(paragraph), Some(marks))), TRUE)
              ELSE Ret(push_node_block_to_parent(p, paragraph), TRUE)
         ELSE Ret(ForwardBlocks(p, nodes), TRUE)

ul_start_handler(s, el) ==
    LET custom_id == s.custom_block_id
        custom_tag == s.custom_block_tag
        taken == [s EXCEPT !.custom_block_id = None, !.custom_block_tag = None]
    IN Ret(Push(flush_text(taken), PendingList(<<>>, FALSE, custom_id, custom_tag)), TRUE)

ol_start_handler(s, el) ==
    Ret(Push(flush_text(s), PendingList(<<>>, TRUE, None, None)), TRUE)

li_start_handler(s, el) == Ret(Push(flush_text(s), Frame("ListItem", <<>>)), TRUE)
p_start_handler(s, el) == Ret(Push(flush_text(s), Frame("Paragraph", <<>>)), TRUE)
pre_start_handler(s, el) == Ret(Push(flush_text(s), Frame("CodeBlock", <<>>)), TRUE)
blockquote_start_handler(s, el) == Ret(Push(flush_text(s), Frame("Blockquote", <<>>)), TRUE)

\* a faulty variant: the mark is pushed before the pending text is flushed
strong_start_handler_push_first(s, el) ==
    Ret(flush_text(PushMark(s, Mark("Strong"))), TRUE)

em_start_handler(s, el) == Ret(PushMark(flush_text(s), Mark("Em")), TRUE)
strong_start_handler(s, el) == Ret(PushMark(flush_text(s), Mark("Strong")), TRUE)
del_start_handler(s, el) == Ret(PushMark(flush_text(s), Mark("Strike")), TRUE)
u_start_handler(s, el) == Ret(PushMark(flush_text(s), Mark("Underline")), TRUE)
sub_start_handler(s, el) == Ret(PushMark(flush_text(s), Mark("Sub")), TRUE)
sup_start_handler(s, el) == Ret(PushMark(flush_text(s), Mark("Sup")), TRUE)

a_start_handler(s, el) ==
    LET f == flush_text(s)
        href == Get(el.attrs, "href")
    IN Ret(IF IsSome(href) THEN PushMark(f, LinkMark(Unwrap(href))) ELSE f, TRUE)

header_start_handler(level, s, el) ==
    Ret(Push(flush_text(s), HeadingFrame(level, <<>>)), TRUE)

ul_end_handler(s, el) == Ret(close_current_block(flush_text(s)), TRUE)
ol_end_handler(s, el) == Ret(close_current_block(flush_text(s)), TRUE)
li_end_handler(s, el) == Ret(close_current_list_item(s), TRUE)
p_end_handler(s, el) == Ret(close_current_block(flush_text(s)), TRUE)
pre_end_handler(s, el) == Ret(close_current_block(flush_text(s)), TRUE)
blockquote_end_handler(s, el) == Ret(close_current_block(flush_text(s)), TRUE)

\* state.mark_stack.pop()
mark_end_handler(s, el) ==
    LET f == flush_text(s)
    IN Ret(IF f.mark_stack = <<>> THEN f ELSE [f EXCEPT !.mark_stack = Front(@)], TRUE)

\* header_end_handler keeping the level of the frame below the closed one
header_end_handler_level_below(level, s, el) ==
    LET f == flush_text(s) IN
    IF ~HasTop(f) THEN Panic(f)
    ELSE IF Top(f).k # "Heading" THEN Panic(Pop(f))
    ELSE IF Top(f).level # level THEN Panic(Pop(f))
    ELSE Ret(push_node_block_to_parent(Pop(f), Heading(level - 1, Some(Top(f).nodes))), TRUE)

header_end_handler(level, s, el) ==
    LET f == flush_text(s) IN
    IF ~HasTop(f) THEN Panic(f)                       \* "Mismatched heading close tag"
    ELSE IF Top(f).k # "Heading" THEN Panic(Pop(f))
    ELSE IF Top(f).level # level THEN Panic(Pop(f))   \* "Mismatched heading close level"
    ELSE Ret(push_node_block_to_parent(Pop(f), Heading(level, Some(Top(f).nodes))), TRUE)

-----------------------------------------------------------------------------
(* handlers/table.rs *)

table_start_handler(s, el) == Ret(Push(flush_text(s), Frame("TableBlock", <<>>)), TRUE)
\* table_section_start_handler pushing a table frame of its own
table_section_start_handler_pushing(s, el) ==
    Ret(Push(flush_text(s), Frame("TableBlock", <<>>)), TRUE)

table_section_start_handler(s, el) == Ret(s, TRUE)
table_section_end_handler(s, el) == Ret(s, TRUE)
table_row_start_handler(s, el) == Ret(Push(flush_text(s), Frame("TableRowBlock", <<>>)), TRUE)
table_cell_start_handler(s, el) ==
    Ret(Push(flush_text(s), Frame("TableBlockCell", <<>>)), TRUE)
table_header_start_handler(s, el) ==
    Ret(Push(flush_text(s), Frame("TableBlockHeader", <<>>)), TRUE)

table_end_handler(s, el) ==
    LET f == flush_text(s) IN
    IF ~HasTop(f) THEN Ret(f, FALSE)
    ELSE IF Top(f).k = "TableBlock"
    THEN Ret(push_node_block_to_parent(Pop(f), Table(None, Top(f).nodes)), TRUE)
    ELSE Ret(Pop(f), FALSE)

push_row_to_table(s, row) ==
    IF HasTop(s) /\ Top(s).k = "TableBlock" THEN PushChild(s, row)
    ELSE Panic(s)                                     \* "No table block found in stack"

\* a faulty variant: a cell without content is not added to the row
push_cell_to_row_dropping_empty(s, cell_nodes) ==
    IF HasTop(s) /\ Top(s).k = "TableRowBlock"
    THEN IF cell_nodes = <<>> THEN s ELSE PushChild(s, TableCell(cell_nodes, None))
    ELSE Panic(s)

push_cell_to_row(s, cell_nodes) ==
    IF HasTop(s) /\ Top(s).k = "TableRowBlock"
    THEN PushChild(s, TableCell(cell_nodes, None))
    ELSE Panic(s)                                     \* "No table row block found in stack"

push_header_to_row(s, cell_nodes) ==
    IF HasTop(s) /\ Top(s).k = "TableRowBlock"
    THEN PushChild(s, TableHeader(cell_nodes, None))
    ELSE Panic(s)

close_current_table_row(s) ==
    IF HasTop(s) /\ Top(s).k = "TableRowBlock"
    THEN push_row_to_table(Pop(s), TableRow(Top(s).nodes))
    ELSE Panic(IF HasTop(s) THEN Pop(s) ELSE s)

close_current_table_cell(s) ==
    IF HasTop(s) /\ Top(s).k = "TableBlockCell"
    THEN push_cell_to_row(Pop(s), Top(s).nodes)
    ELSE Panic(IF HasTop(s) THEN Pop(s) ELSE s)

close_current_table_header(s) ==
    IF HasTop(s) /\ Top(s).k = "TableBlockHeader"
    THEN push_header_to_row(Pop(s), Top(s).nodes)
    ELSE Panic(IF HasTop(s) THEN Pop(s) ELSE s)

table_row_end_handler(s, el) == Ret(close_current_table_row(flush_text(s)), TRUE)
table_cell_end_handler(s, el) == Ret(close_current_table_cell(flush_text(s)), TRUE)
table_header_end_handler(s, el) == Ret(close_current_table_header(flush_text(s)), TRUE)

-----------------------------------------------------------------------------
(* handlers/tasks.rs, handlers/decisions.rs *)

HasListItem(s) == \E i \in 1..Len(s.stack) : s.stack[i].k = "ListItem"

\* the `loop { state.stack.pop() }` of task_item_start_handler: pops up to and
\* including the innermost ListItem frame
RECURSIVE PopToListItem(_)
PopToListItem(s) ==
    IF Top(s).k = "ListItem" THEN Pop(s) ELSE PopToListItem(Pop(s))

RECURSIVE InnermostListItem(_)
InnermostListItem(stk) ==
    IF Last(stk).k = "ListItem" THEN Last(stk) ELSE InnermostListItem(Front(stk))

\* task_item_start_handler pushing the task item on top of the list item
task_item_start_handler_pushing(s, el) ==
    IF ~HasListItem(s) THEN Ret(s, FALSE)
    ELSE
      LET inner == InnermostListItem(s.stack).nodes
          input_type == Get(el.attrs, "type")
          checked == "checked" \in DOMAIN el.attrs
          item_state == IF checked THEN "DONE" ELSE "TODO"
      IN IF IsSome(input_type)
         THEN IF ToLower(Unwrap(input_type)) = "checkbox"
              THEN Ret(Push(s, TaskItemFrame(inner, item_state,
                                             UnwrapOrDefault(Get(el.attrs, "id")))), TRUE)
              ELSE Panic(s)
         ELSE Panic(s)

task_item_start_handler(s, el) ==
    IF ~HasListItem(s) THEN Ret(s, FALSE)
    ELSE
      LET inner == InnermostListItem(s.stack).nodes
          p == PopToListItem(s)
          input_type == Get(el.attrs, "type")
          checked == "checked" \in DOMAIN el.attrs
          item_state == IF checked THEN "DONE" ELSE "TODO"
      IN IF IsSome(input_type)
         THEN IF ToLower(Unwrap(input_type)) = "checkbox"
              THEN Ret(Push(p, TaskItemFrame(inner, item_state,
                                             UnwrapOrDefault(Get(el.attrs, "id")))), TRUE)
              ELSE Panic(p)             \* "Unsupported type attribute for task item"
         ELSE Panic(p)                  \* "No type attribute found for task item"

decision_start_handler(s, el) ==
    Ret(Push(s, DecisionItemFrame(<<>>, UnwrapOrDefault(Get(el.attrs, "id")))), TRUE)

-----------------------------------------------------------------------------
(* handlers/custom.rs *)

\* chrono::DateTime::parse_from_rfc3339(..).map(|dt| dt.timestamp()).unwrap_or(0)
\* over datetime values [rfc3339 |-> b, ms |-> n]: b says whether the string
\* parses as RFC 3339, n is the instant in milliseconds after the epoch
ParseRfc3339Seconds(v) == IF v.rfc3339 THEN v.ms \div 1000 ELSE 0

Date(timestamp) == [t |-> "Date", timestamp |-> timestamp]
Status(color, local_id, text) ==
    [t |-> "Status", color |-> color, local_id |-> local_id, text |-> text]
Emoji(text, short_name) == [t |-> "Emoji", text |-> text, short_name |-> short_name]
Mention(id, text, user_type, access_level) ==
    [t |-> "Mention", id |-> id, text |-> text, user_type |-> user_type,
     access_level |-> access_level]
InlineCard(url) == [t |-> "InlineCard", url |-> url]

date_start_handler(s, el) ==
    Ret(Push(flush_text(s), CustomBlock("Date", <<>>, el.attrs)), TRUE)

date_end_handler(s, el) ==
    LET f == flush_text(s) IN
    IF ~HasTop(f) THEN Ret(f, FALSE)
    ELSE IF IsCustom(Top(f), {"Date"})
    THEN LET dt == Get(Top(f).attrs, "datetime")
             timestamp == IF IsSome(dt) THEN ParseRfc3339Seconds(Unwrap(dt)) ELSE 0
         IN Ret(push_node_to_parent(Pop(f), Date(timestamp)), TRUE)
    ELSE Ret(Pop(f), FALSE)

details_start_handler(s, el) ==
    LET is_nested == "data-nested" \in DOMAIN el.attrs
    IN Ret(Push(flush_text(s),
                CustomBlock(IF is_nested THEN "NestedExpand" ELSE "Expand", <<>>, el.attrs)),
           TRUE)

\* position of the nearest enclosing Expand / NestedExpand frame, 0 if none
RECURSIVE NearestExpand(_, _)
NearestExpand(stk, i) ==
    IF i < 1 THEN 0
    ELSE IF IsCustom(stk[i], {"Expand", "NestedExpand"}) THEN i
    ELSE NearestExpand(stk, i - 1)

\* summary_end_handler looking at the top frame only
summary_end_handler_top_only(s, el) ==
    LET summary_text == Trim(s.current_text)
        cleared == [s EXCEPT !.current_text = <<>>]
        pos == IF HasTop(s) /\ IsCustom(Top(s), {"Expand", "NestedExpand"})
               THEN Len(s.stack) ELSE 0
    IN IF pos # 0
       THEN Ret([cleared EXCEPT !.stack[pos].attrs =
                     [n \in DOMAIN @ \cup {"data-summary"} |->
                         IF n = "data-summary" THEN summary_text ELSE @[n]]], TRUE)
       ELSE Ret(cleared, FALSE)

summary_end_handler(s, el) ==
    LET summary_text == Trim(s.current_text)
        cleared == [s EXCEPT !.current_text = <<>>]
        pos == NearestExpand(s.stack, Len(s.stack))
    IN IF pos # 0
       THEN Ret([cleared EXCEPT !.stack[pos].attrs =
                     [n \in DOMAIN @ \cup {"data-summary"} |->
                         IF n = "data-summary" THEN summary_text ELSE @[n]]], TRUE)
       ELSE Ret(cleared, FALSE)

details_end_handler(s, el) ==
    LET f == flush_text(s) IN
    IF ~HasTop(f) THEN Ret(f, FALSE)
    ELSE IF Top(f).k = "CustomBlock"
    THEN LET summary == Get(Top(f).attrs, "data-summary")
             title == IF IsSome(summary) THEN Unwrap(summary) ELSE <<>>
             nodes == Top(f).nodes
         IN CASE Top(f).ty = "Expand" ->
                   Ret(push_node_block_to_parent(Pop(f),
                         Expand(IF title = <<>> THEN None ELSE Some(title), nodes)), TRUE)
              [] Top(f).ty = "NestedExpand" ->
                   Ret(push_node_block_to_parent(Pop(f), NestedExpand(title, nodes)), TRUE)
              [] OTHER -> Ret(Pop(f), FALSE)
    ELSE Ret(Pop(f), FALSE)

figure_start_handler(s, el) ==
    Ret(Push(flush_text(s), CustomBlock("Panel", <<>>, el.attrs)), TRUE)

figure_end_handler(s, el) ==
    LET f == flush_text(s) IN
    IF ~HasTop(f) THEN Ret(f, FALSE)
    ELSE IF IsCustom(Top(f), {"Panel"})
    THEN LET pt == Get(Top(f).attrs, "data-panel-type")
             panel_type == IF IsSome(pt) THEN Unwrap(pt) ELSE "info"
         IN Ret(push_node_block_to_parent(Pop(f), Panel(panel_type, Top(f).nodes)), TRUE)
    ELSE Ret(Pop(f), FALSE)

mention_start_handler(s, el) ==
    Ret(Push(flush_text(s), CustomBlock("Mention", <<>>, el.attrs)), TRUE)

\* serde_json::from_str of the quoted attribute into the enum, unwrap_or_default
ParseEnum(o, default, valid) ==
    IF IsSome(o) THEN (IF Unwrap(o) \in valid THEN Some(Unwrap(o)) ELSE None)
    ELSE Some(default)

mention_end_handler(s, el) ==
    IF ~HasTop(s) THEN Ret(s, FALSE)
    ELSE IF IsCustom(Top(s), {"Mention"})
    THEN LET attrs == Top(s).attrs
             text == Trim(s.current_text)
             p == [Pop(s) EXCEPT !.current_text = <<>>]
             user_type == ParseEnum(Get(attrs, "data-user-type"), "DEFAULT",
                                    {"DEFAULT", "SPECIAL", "APP"})
             access_level == ParseEnum(Get(attrs, "data-access-level"), "NONE",
                                       {"NONE", "SITE", "APPLICATION"})
         IN Ret(push_node_to_parent(p,
                  Mention(UnwrapOrDefault(Get(attrs, "data-mention-id")),
                          IF text = <<>> THEN None ELSE Some(text),
                          user_type, access_level)), TRUE)
    ELSE Ret(Pop(s), FALSE)

local_data_start_handler(s, el) ==
    Ret([s EXCEPT !.custom_block_id = Get(el.attrs, "id"),
                  !.custom_block_tag = Get(el.attrs, "data-tag")], TRUE)

status_start_handler(s, el) ==
    LET f == [flush_text(s) EXCEPT !.current_text = <<>>]
    IN Ret(Push(f, CustomBlock("Status", <<>>, el.attrs)), TRUE)

status_end_handler(s, el) ==
    IF ~HasTop(s) THEN Panic(s)
    ELSE IF IsCustom(Top(s), {"Status"})
    THEN LET attrs == Top(s).attrs
             text == Trim(s.current_text)
             p == [Pop(s) EXCEPT !.current_text = <<>>]
             style == Get(attrs, "style")
             color == IF IsSome(style)
                      THEN extract_style(Unwrap(style), "background-color") ELSE None
         IN Ret(push_node_to_parent(p,
                  Status(IF IsSome(color) THEN Unwrap(color) ELSE "neutral",
                         Get(attrs, "aria-label"), text)), TRUE)
    ELSE Panic(Pop(s))                                \* "Mismatched status close tag"

emoji_start_handler(s, el) ==
    LET f == [flush_text(s) EXCEPT !.current_text = <<>>]
    IN Ret(Push(f, CustomBlock("Emoji", <<>>, el.attrs)), TRUE)

emoji_end_handler(s, el) ==
    IF ~HasTop(s) THEN Panic(s)
    ELSE IF IsCustom(Top(s), {"Emoji"})
    THEN LET attrs == Top(s).attrs
             alt == Get(attrs, "aria-alt")
             short_name == IF IsSome(alt) THEN Unwrap(alt) ELSE ":smile:"
             text == Trim(s.current_text)
             p == [Pop(s) EXCEPT !.current_text = <<>>]
         IN Ret(push_node_to_parent(p, Emoji(Some(text), short_name)), TRUE)
    ELSE Panic(Pop(s))                                \* "Mismatched emoji close tag"

-----------------------------------------------------------------------------
(* handlers/media.rs *)

MediaNode(attrs, marks) == [t |-> "Media", attrs |-> attrs, marks |-> marks]
MediaAttrs(alt, collection, id, type_, width, height) ==
    [alt |-> alt, collection |-> collection, id |-> id, type_ |-> type_,
     width |-> width, height |-> height]
MediaSingle(layout, content) == [t |-> "MediaSingle", layout |-> layout, content |-> content]
MediaGroup(content) == [t |-> "MediaGroup", content |-> content]

media_single_start_handler(s, el) ==
    Ret(Push(flush_text(s), MediaBlock("MediaSingle", <<>>, el.attrs)), TRUE)

\* media_single_end_handler with unwrap_or_default in place of expect
media_single_end_handler_default_layout(s, el) ==
    LET f == flush_text(s) IN
    IF ~HasTop(f) THEN Ret(f, TRUE)
    ELSE IF Top(f).k = "MediaBlock" /\ Top(f).ty = "MediaSingle"
    THEN Ret(push_node_block_to_parent(Pop(f),
               MediaSingle(UnwrapOrDefault(Get(Top(f).attrs, "data-layout")),
                           Top(f).nodes)), TRUE)
    ELSE Ret(Pop(f), TRUE)

media_single_end_handler(s, el) ==
    LET f == flush_text(s) IN
    IF ~HasTop(f) THEN Ret(f, TRUE)
    ELSE IF Top(f).k = "MediaBlock" /\ Top(f).ty = "MediaSingle"
    THEN LET layout == Get(Top(f).attrs, "data-layout")
         IN IF IsSome(layout)
            THEN Ret(push_node_block_to_parent(Pop(f),
                       MediaSingle(Unwrap(layout), Top(f).nodes)), TRUE)
            ELSE Panic(Pop(f))          \* expect("Required attribute data-layout")
    ELSE Ret(Pop(f), TRUE)

media_group_start_handler(s, el) ==
    Ret(Push(flush_text(s), MediaBlock("MediaGroup", <<>>, el.attrs)), TRUE)

media_group_end_handler(s, el) ==
    LET f == flush_text(s) IN
    IF ~HasTop(f) THEN Ret(f, TRUE)
    ELSE IF Top(f).k = "MediaBlock" /\ Top(f).ty = "MediaGroup"
    THEN Ret(push_node_block_to_parent(Pop(f), MediaGroup(Top(f).nodes)), TRUE)
    ELSE Ret(Pop(f), TRUE)

push_media_node_to_parent(s, node) ==
    IF HasTop(s) /\ Top(s).k = "MediaBlock" THEN PushChild(s, node)
    ELSE Panic(s)                                     \* "Expected MediaBlock on stack"

media_and_inline_card_start_handler(s, el) ==
    IF HasTop(s) /\ Top(s).k = "MediaBlock"
    THEN LET id == UnwrapOrDefault(Get(el.attrs, "data-media-id"))
             collection == UnwrapOrDefault(Get(el.attrs, "data-collection"))
             alt == Get(el.attrs, "alt")
             style == Get(el.attrs, "style")
             w == IF IsSome(style) THEN extract_style(Unwrap(style), "width") ELSE None
             h == IF IsSome(style) THEN extract_style(Unwrap(style), "height") ELSE None
             width == IF IsSome(w) THEN ParsePx(Unwrap(w)) ELSE None
             height == IF IsSome(h) THEN ParsePx(Unwrap(h)) ELSE None
             href == Get(el.attrs, "href")
         IN IF el.tag = "a"
            THEN IF IsSome(href)
                 THEN Ret(push_media_node_to_parent(s,
                            MediaNode(MediaAttrs(alt, collection, id, "link", width, height),
                                      Some(<<LinkMark(Unwrap(href))>>))), TRUE)
                 ELSE Panic(s)          \* expect("a tag should have href")
            ELSE IF el.tag = "img"
            THEN Ret(push_media_node_to_parent(s,
                       MediaNode(MediaAttrs(alt, collection, id, "file", width, height),
                                 None)), TRUE)
            ELSE Panic(s)               \* "Unknown media type"
    ELSE IF el.tag = "a" /\ "data-inline-card" \in DOMAIN el.attrs
    THEN IF "href" \in DOMAIN el.attrs
         THEN Ret(Push(flush_text(s), CustomBlock("InlineCard", <<>>, el.attrs)), TRUE)
         ELSE Panic(s)                  \* "Inline card without href"
    ELSE Ret(s, FALSE)

inline_card_end_handler(s, el) ==
    IF el.tag # "a" THEN Ret(s, FALSE)
    ELSE IF ~(HasTop(s) /\ IsCustom(Top(s), {"InlineCard"})) THEN Ret(s, FALSE)
    ELSE LET attrs == Top(s).attrs
             p == [Pop(s) EXCEPT !.current_text = <<>>]
         IN Ret(push_node_to_parent(p,
                  InlineCard(Some(UnwrapOrDefault(Get(attrs, "href"))))), TRUE)

-----------------------------------------------------------------------------
(* ADFBuilder::new: the handler tables; process_token: the two-tier dispatch *)

HeadingTags == {"h1", "h2", "h3", "h4", "h5", "h6"}
HeadingLevel(tag) ==
    CASE tag = "h1" -> 1 [] tag = "h2" -> 2 [] tag = "h3" -> 3
      [] tag = "h4" -> 4 [] tag = "h5" -> 5 [] tag = "h6" -> 6

\* keys of start_handlers
BaseStartTags ==
    {"ul", "ol", "li", "p", "pre", "blockquote", "em", "strong", "del", "a", "u",
     "sub", "sup", "table", "thead", "tbody", "tr", "th", "td", "br", "hr", "code",
     "div", "span", "time", "details", "figure", "adf-task-item", "adf-decision-item",
     "adf-local-data", "adf-status", "adf-emoji", "adf-mention", "adf-media-single",
     "adf-media-group"} \cup HeadingTags

\* keys of end_handlers
BaseEndTags ==
    {"ul", "ol", "li", "p", "pre", "blockquote", "em", "strong", "del", "a", "u",
     "sub", "sup", "table", "thead", "tbody", "tr", "th", "td", "code", "div", "span",
     "time", "details", "figure", "summary", "adf-status", "adf-emoji", "adf-mention",
     "adf-media-single", "adf-media-group"} \cup HeadingTags

\* keys of custom_start_handlers and custom_end_handlers
CustomStartTags == {"a", "img"}
CustomEndTags == {"a"}

start_handlers(tag, s, el) ==
    CASE tag = "ul" -> ul_start_handler(s, el)
      [] tag = "ol" -> ol_start_handler(s, el)
      [] tag = "li" -> li_start_handler(s, el)
      [] tag = "p" -> p_start_handler(s, el)
      [] tag = "pre" -> pre_start_handler(s, el)
      [] tag = "blockquote" -> blockquote_start_handler(s, el)
      [] tag = "em" -> em_start_handler(s, el)
      [] tag = "strong" -> strong_start_handler(s, el)
      [] tag = "del" -> del_start_handler(s, el)
      [] tag = "a" -> a_start_handler(s, el)
      [] tag = "u" -> u_start_handler(s, el)
      [] tag = "sub" -> sub_start_handler(s, el)
      [] tag = "sup" -> sup_start_handler(s, el)
      [] tag \in HeadingTags -> header_start_handler(HeadingLevel(tag), s, el)
      [] tag = "table" -> table_start_handler(s, el)
      [] tag \in {"thead", "tbody"} -> table_section_start_handler(s, el)
      [] tag = "tr" -> table_row_start_handler(s, el)
      [] tag = "th" -> table_header_start_handler(s, el)
      [] tag = "td" -> table_cell_start_handler(s, el)
      [] tag = "br" -> hard_break_start_handler(s, el)
      [] tag = "hr" -> rule_start_handler(s, el)
      [] tag = "code" -> code_start_handler(s, el)
      [] tag = "div" -> div_start_handler(s, el)
      [] tag = "span" -> span_start_handler(s, el)
      [] tag = "time" -> date_start_handler(s, el)
      [] tag = "details" -> details_start_handler(s, el)
      [] tag = "figure" -> figure_start_handler(s, el)
      [] tag = "adf-task-item" -> task_item_start_handler(s, el)
      [] tag = "adf-decision-item" -> decision_start_handler(s, el)
      [] tag = "adf-local-data" -> local_data_start_handler(s, el)
      [] tag = "adf-status" -> status_start_handler(s, el)
      [] tag = "adf-emoji" -> emoji_start_handler(s, el)
      [] tag = "adf-mention" -> mention_start_handler(s, el)
      [] tag = "adf-media-single" -> media_single_start_handler(s, el)
      [] tag = "adf-media-group" -> media_group_start_handler(s, el)

end_handlers(tag, s, el) ==
    CASE tag = "ul" -> ul_end_handler(s, el)
      [] tag = "ol" -> ol_end_handler(s, el)
      [] tag = "li" -> li_end_handler(s, el)
      [] tag = "p" -> p_end_handler(s, el)
      [] tag = "pre" -> pre_end_handler(s, el)
      [] tag = "blockquote" -> blockquote_end_handler(s, el)
      [] tag \in {"em", "strong", "del", "a", "u", "sub", "sup", "span"} ->
           mark_end_handler(s, el)
      [] tag \in HeadingTags -> header_end_handler(HeadingLevel(tag), s, el)
      [] tag = "table" -> table_end_handler(s, el)
      [] tag \in {"thead", "tbody"} -> table_section_end_handler(s, el)
      [] tag = "tr" -> table_row_end_handler(s, el)
      [] tag = "th" -> table_header_end_handler(s, el)
      [] tag = "td" -> table_cell_end_handler(s, el)
      [] tag = "code" -> code_end_handler(s, el)
      [] tag = "div" -> div_end_handler(s, el)
      [] tag = "time" -> date_end_handler(s, el)
      [] tag = "details" -> details_end_handler(s, el)
      [] tag = "figure" -> figure_end_handler(s, el)
      [] tag = "summary" -> summary_end_handler(s, el)
      [] tag = "adf-status" -> status_end_handler(s, el)
      [] tag = "adf-emoji" -> emoji_end_handler(s, el)
      [] tag = "adf-mention" -> mention_end_handler(s, el)
      [] tag = "adf-media-single" -> media_single_end_handler(s, el)
      [] tag = "adf-media-group" -> media_group_end_handler(s, el)

custom_start_handlers(tag, s, el) == media_and_inline_card_start_handler(s, el)
custom_end_handlers(tag, s, el) == inline_card_end_handler(s, el)

\* one handler invocation, as recorded in last.calls
Call(tier, r) == [tier |-> tier, ret |-> r.ret, panic |-> r.panic]

\* a faulty variant: the base handler runs whatever the custom handler returned
process_start_tag_always_base(s, el) ==
    LET has_custom == el.tag \in CustomStartTags
        c == IF has_custom THEN custom_start_handlers(el.tag, s, el) ELSE s
        c_calls == IF has_custom THEN <<Call("custom", c)>> ELSE <<>>
    IN IF has_custom /\ c.panic THEN [st |-> c, calls |-> c_calls]
       ELSE IF el.tag \in BaseStartTags
       THEN LET b == start_handlers(el.tag, c, el)
            IN [st |-> b, calls |-> Append(c_calls, Call("base", b))]
       ELSE [st |-> c, calls |-> c_calls]

\* process_token, StartTag arm: the state after the token and the handlers run
process_start_tag(s, el) ==
    LET has_custom == el.tag \in CustomStartTags
        c == IF has_custom THEN custom_start_handlers(el.tag, s, el) ELSE s
        c_calls == IF has_custom THEN <<Call("custom", c)>> ELSE <<>>
    IN IF has_custom /\ (c.panic \/ c.ret) THEN [st |-> c, calls |-> c_calls]
       ELSE IF el.tag \in BaseStartTags
       THEN LET b == start_handlers(el.tag, c, el)
            IN [st |-> b, calls |-> Append(c_calls, Call("base", b))]
       ELSE [st |-> c, calls |-> c_calls]

\* process_token, EndTag arm
\* process_end_tag flushing the pending text for a tag without a handler
process_end_tag_flushing(s, el) ==
    IF el.tag \in CustomEndTags \cup BaseEndTags
    THEN LET has_custom == el.tag \in CustomEndTags
             c == IF has_custom THEN custom_end_handlers(el.tag, s, el) ELSE s
             c_calls == IF has_custom THEN <<Call("custom", c)>> ELSE <<>>
         IN IF has_custom /\ (c.panic \/ c.ret) THEN [st |-> c, calls |-> c_calls]
            ELSE IF el.tag \in BaseEndTags
            THEN LET b == end_handlers(el.tag, c, el)
                 IN [st |-> b, calls |-> Append(c_calls, Call("base", b))]
            ELSE [st |-> c, calls |-> c_calls]
    ELSE [st |-> flush_text(s), calls |-> <<>>]

process_end_tag(s, el) ==
    LET has_custom == el.tag \in CustomEndTags
        c == IF has_custom THEN custom_end_handlers(el.tag, s, el) ELSE s
        c_calls == IF has_custom THEN <<Call("custom", c)>> ELSE <<>>
    IN IF has_custom /\ (c.panic \/ c.ret) THEN [st |-> c, calls |-> c_calls]
       ELSE IF el.tag \in BaseEndTags
       THEN LET b == end_handlers(el.tag, c, el)
            IN [st |-> b, calls |-> Append(c_calls, Call("base", b))]
       ELSE [st |-> c, calls |-> c_calls]

\* a faulty variant: the new text replaces the pending text
process_characters_replacing(s, t) == [s EXCEPT !.current_text = t]

\* process_token, CharacterTokens arm: state.current_text.push_str(&t)
process_characters(s, t) == [s EXCEPT !.current_text = @ \o t]

-----------------------------------------------------------------------------
(* The builder as a state machine *)

Install(st) ==
    /\ stack' = st.stack
    /\ mark_stack' = st.mark_stack
    /\ current_text' = st.current_text
    /\ custom_block_id' = st.custom_block_id
    /\ custom_block_tag' = st.custom_block_tag
    /\ status' = IF st.panic THEN "panicked" ELSE "running"

Event(kind, tag, calls) == [kind |-> kind, tag |-> tag, calls |-> calls]

\* a start tag arrives from the tokenizer
OnStartTag(el) ==
    /\ status = "running"
    /\ LET r == process_start_tag(Cur, el)
       IN /\ Install(r.st)
          /\ last' = Event("start", el.tag, r.calls)
    /\ nev' = nev + 1
    /\ UNCHANGED <<doc, src, dom, parsed, output>>

StartTag(el) == OnStartTag(el) /\ UNCHANGED input

\* an end tag arrives from the tokenizer
OnEndTag(el) ==
    /\ status = "running"
    /\ LET r == process_end_tag(Cur, el)
       IN /\ Install(r.st)
          /\ last' = Event("end", el.tag, r.calls)
    /\ nev' = nev + 1
    /\ UNCHANGED <<doc, src, dom, parsed, output>>

EndTag(el) == OnEndTag(el) /\ UNCHANGED input

\* character data arrives from the tokenizer
OnCharacters(t) ==
    /\ status = "running"
    /\ Install(process_characters(Cur, t))
    /\ last' = Event("chars", "", <<>>)
    /\ nev' = nev + 1
    /\ UNCHANGED <<doc, src, dom, parsed, output>>

Characters(t) == OnCharacters(t) /\ UNCHANGED input

\* ADFBuilder::emit: consumes the builder
Emit ==
    /\ status = "running"
    /\ LET e == emit_state(Cur)
       IN /\ stack' = IF emit_panics(Cur) THEN e.stack ELSE <<>>
          /\ mark_stack' = e.mark_stack
          /\ current_text' = e.current_text
          /\ custom_block_id' = e.custom_block_id
          /\ custom_block_tag' = e.custom_block_tag
          /\ status' = IF emit_panics(Cur) THEN "panicked" ELSE "emitted"
          /\ doc' = IF emit_panics(Cur) THEN None ELSE Some(emit_doc(Cur))
    /\ last' = Event("emit", "", <<>>)
    /\ UNCHANGED <<nev, input, src, dom, parsed, output>>

InitBuilder ==
    /\ stack = NewState.stack
    /\ mark_stack = NewState.mark_stack
    /\ current_text = NewState.current_text
    /\ custom_block_id = NewState.custom_block_id
    /\ custom_block_tag = NewState.custom_block_tag
    /\ status = "running"
    /\ doc = None
    /\ last = Event("new", "", <<>>)
    /\ nev = 0
    /\ input = <<>>
    /\ src = None
    /\ dom = <<>> /\ parsed = <<>> /\ output = None

\* character data of the free-running specifications
Texts == {<<"a">>, <<" ", "\n">>, <<"\n", "b", " ">>}

\* Block structure: any sequence of block-level tags and text
BlockTags == {"p", "blockquote", "ul", "li", "pre", "h1", "table", "td",
              "details", "figure", "div"}
BlockStarts == {El(t) : t \in BlockTags \cup {"hr", "ol", "tr", "th"}}
BlockEnds == {El(t) : t \in BlockTags}

NextBlock ==
    \/ \E el \in BlockStarts : nev < MaxEvents /\ StartTag(el)
    \/ \E el \in BlockEnds : nev < MaxEvents /\ EndTag(el)
    \/ \E t \in Texts : nev < MaxEvents /\ Characters(t)
    \/ Emit

Spec == InitBuilder /\ [][NextBlock]_vars

-----------------------------------------------------------------------------
(* Properties of the block structure (specification Spec) *)

\* the step is the processing of one token by a running builder
IsEventStep == status = "running" /\ nev' = nev + 1
IsStartOf(tags) == IsEventStep /\ last'.kind = "start" /\ last'.tag \in tags
IsEndOf(tags) == IsEventStep /\ last'.kind = "end" /\ last'.tag \in tags

\* C2: in every state reached by feeding start-tag, end-tag and character
\* events to a fresh builder, before emit, the stack is non-empty and its
\* bottom frame is the Document frame.
C2_DocumentAtBottom ==
    status = "running" => (stack # <<>> /\ stack[1].k = "Document")

\* C3: emit called with frames of any kind open above the Document frame
\* returns a Doc node with version 1 holding the Document frame's children.
C3_EmitStep ==
    (status = "running" /\ last'.kind = "emit" /\ nev' = nev
       /\ Len(stack) > 1 /\ stack[1].k = "Document")
    => (status' = "emitted" /\ doc' # None /\ Unwrap(doc').t = "Doc"
          /\ Unwrap(doc').version = 1)
C3_EmitReturnsDoc == [][C3_EmitStep]_vars

\* the frame an end tag closes
FrameEndTags == {"p", "blockquote", "ul", "ol", "li", "pre", "table", "tr", "td",
                 "th", "details", "figure", "div"} \cup HeadingTags
ClosesFrame(tag, frame) ==
    CASE tag = "p" -> frame.k = "Paragraph"
      [] tag = "blockquote" -> frame.k = "Blockquote"
      [] tag \in {"ul", "ol"} -> frame.k = "PendingList"
      [] tag = "li" -> frame.k \in {"ListItem", "TaskItem", "DecisionItem"}
      [] tag = "pre" -> frame.k = "CodeBlock"
      [] tag = "table" -> frame.k = "TableBlock"
      [] tag = "tr" -> frame.k = "TableRowBlock"
      [] tag = "td" -> frame.k = "TableBlockCell"
      [] tag = "th" -> frame.k = "TableBlockHeader"
      [] tag = "details" -> IsCustom(frame, {"Expand", "NestedExpand"})
      [] tag = "figure" -> IsCustom(frame, {"Panel"})
      [] tag = "div" -> IsCustom(frame, {"Div"})
      [] tag \in HeadingTags -> frame.k = "Heading" /\ frame.level = HeadingLevel(tag)

\* C4: an end tag whose top frame is not of the kind the tag closes aborts
\* the conversion; no handler pops a frame of another kind and continues.
C4_MismatchStep ==
    (IsEndOf(FrameEndTags) /\ stack # <<>> /\ ~ClosesFrame(last'.tag, Last(stack)))
    => status' = "panicked"
C4_MismatchedEndAborts == [][C4_MismatchStep]_vars

\* the one whitelist of parents stated for all four closed kinds
WhitelistedParent(parent) ==
    \/ parent.k \in {"Document", "TableBlockCell", "TableBlockHeader", "Blockquote",
                     "ListItem"}
    \/ IsCustom(parent, {"Div", "Expand", "NestedExpand", "Panel"})

\* C5: closing a paragraph, blockquote, list or code-block frame appends its
\* node to the new top frame when that frame is on the whitelist, and faults
\* otherwise; the whitelist is the same for the four kinds.
C5_CloseStep ==
    (IsEndOf({"p", "blockquote", "ul", "ol", "pre"}) /\ Len(stack) >= 2
       /\ ClosesFrame(last'.tag, Last(stack)))
    => IF WhitelistedParent(stack[Len(stack) - 1])
       THEN status' = "running" /\ Len(stack') = Len(stack) - 1
       ELSE status' = "panicked"
C5_SameParentWhitelist == [][C5_CloseStep]_vars

\* C7: an hr start event that finds a paragraph, list-item, blockquote, table
\* cell or table header frame on top closes it first, and the Rule node is
\* then the last child of a frame that is none of these kinds.
C7_RuleStep ==
    (IsStartOf({"hr"}) /\ stack # <<>> /\ Last(stack).k \in RuleClosedKinds)
    => (status' = "running" /\ stack' # <<>>
          /\ Last(stack').k \notin RuleClosedKinds
          /\ Last(stack').nodes # <<>>
          /\ Last(Last(stack').nodes) = Rule)
C7_RuleLandsAsSibling == [][C7_RuleStep]_vars

-----------------------------------------------------------------------------
(* Tables (specification SpecTable) *)

TableTags == {"table", "tr", "td", "th", "p"}

NextTable ==
    \/ \E t \in TableTags : nev < MaxTableEvents /\ StartTag(El(t))
    \/ \E t \in TableTags : nev < MaxTableEvents /\ EndTag(El(t))
    \/ nev < MaxTableEvents /\ Characters(<<"a">>)
    \/ Emit

SpecTable == InitBuilder /\ [][NextTable]_vars

\* the stack below its two top frames is left alone, the top frame is gone and
\* the frame under it, of kind k, has got exactly one more child: entry
OneEntryAppended(k, entry) ==
    /\ status' = "running"
    /\ Len(stack') = Len(stack) - 1
    /\ SubSeq(stack', 1, Len(stack') - 1) = SubSeq(stack, 1, Len(stack) - 2)
    /\ Last(stack').k = k
    /\ Last(stack').nodes = Append(stack[Len(stack) - 1].nodes, entry)

\* the top frame is of kind k and the frame under it of kind under
TopTwo(k, under) ==
    /\ Len(stack) >= 2
    /\ Last(stack).k = k
    /\ stack[Len(stack) - 1].k = under

\* the blocks accumulated in the top frame, the pending text included
Accumulated == Top(flush_text(Cur)).nodes

\* C8: a td (th) end tag closing its cell (header) frame appends exactly one
\* TableCell (TableHeader) to the enclosing row frame, holding the blocks
\* accumulated since the start tag; an empty <td></td> gives a cell with empty
\* content; a tr end tag appends exactly one row to the enclosing table frame.
C8_Step ==
    /\ (IsEndOf({"td"}) /\ TopTwo("TableBlockCell", "TableRowBlock"))
         => /\ OneEntryAppended("TableRowBlock", TableCell(Accumulated, None))
            /\ (Last(stack).nodes = <<>> /\ current_text = <<>>)
                 => Last(Last(stack').nodes) = TableCell(<<>>, None)
    /\ (IsEndOf({"th"}) /\ TopTwo("TableBlockHeader", "TableRowBlock"))
         => OneEntryAppended("TableRowBlock", TableHeader(Accumulated, None))
    /\ (IsEndOf({"tr"}) /\ TopTwo("TableRowBlock", "TableBlock"))
         => OneEntryAppended("TableBlock", TableRow(Last(stack).nodes))
C8_OneEntryPerCell == [][C8_Step]_vars

\* <td></td> has just been closed inside a row
C8_EmptyCellClosed ==
    /\ status = "running"
    /\ last.kind = "end" /\ last.tag = "td"
    /\ Len(stack) = 3
    /\ Last(stack).k = "TableRowBlock"
    /\ Last(stack).nodes # <<>>
    /\ Last(Last(stack).nodes) = TableCell(<<>>, None)

-----------------------------------------------------------------------------
(* Inline content and the dispatch (specification SpecInline) *)

InlineStarts ==
    {El("p"), El("strong"), El("em"), El("code"), El("img"), El("adf-media-group"),
     Element("a", [n \in {"href"} |-> "u"]),
     Element("a", [n \in {"href", "data-inline-card"} |-> IF n = "href" THEN "u" ELSE "true"])}
InlineEnds == {El("p"), El("strong"), El("code"), El("a"), El("adf-media-group")}
InlineTexts == {<<"a">>, <<" ", "\n">>}

NextInline ==
    \/ \E el \in InlineStarts : nev < MaxMarkEvents /\ StartTag(el)
    \/ \E el \in InlineEnds : nev < MaxMarkEvents /\ EndTag(el)
    \/ \E t \in InlineTexts : nev < MaxMarkEvents /\ Characters(t)
    \/ Emit

SpecInline == InitBuilder /\ [][NextInline]_vars

HasCustomHandler(e) ==
    \/ e.kind = "start" /\ e.tag \in CustomStartTags
    \/ e.kind = "end" /\ e.tag \in CustomEndTags
HasBaseHandler(e) ==
    \/ e.kind = "start" /\ e.tag \in BaseStartTags
    \/ e.kind = "end" /\ e.tag \in BaseEndTags
BaseRan(e) == \E i \in 1..Len(e.calls) : e.calls[i].tier = "base"
CustomRan(e) == \E i \in 1..Len(e.calls) : e.calls[i].tier = "custom"

\* C6: for every tag event the custom handler of the tag, if there is one,
\* runs first; the base handler of the tag runs if and only if there is no
\* custom handler or the custom handler returned false.
C6_TwoTierDispatch ==
    last.kind \in {"start", "end"} =>
      /\ Len(last.calls) <= 2
      /\ CustomRan(last) <=> HasCustomHandler(last)
      /\ HasCustomHandler(last) => last.calls[1].tier = "custom"
      /\ (HasBaseHandler(last) /\ BaseRan(last)) <=>
           /\ HasBaseHandler(last)
           /\ \/ ~HasCustomHandler(last)
              \/ (~last.calls[1].panic /\ ~last.calls[1].ret)
      /\ BaseRan(last) => HasBaseHandler(last)

\* the custom handler of <a> took the tag and the base handler did not run
C6_CustomHandled ==
    /\ last.kind = "start" /\ last.tag = "a"
    /\ last.calls = <<[tier |-> "custom", ret |-> TRUE, panic |-> FALSE]>>
    /\ status = "running"

\* C9: with strong and em active, a code start tag makes the active marks
\* exactly [code].
C9_CodeStep ==
    (IsStartOf({"code"}) /\ ~InPre(Cur)
       /\ Mark("Strong") \in Range(mark_stack) /\ Mark("Em") \in Range(mark_stack))
    => mark_stack' = <<Mark("Code")>>
C9_CodeExclusive == [][C9_CodeStep]_vars

\* C10: two character events in a row leave the builder in the state one
\* character event with the concatenated text leaves it in, with the same
\* flushed output, and flush_text after flush_text changes nothing.
C10_CharsConcatenate ==
    status = "running" =>
      /\ \A t1, t2 \in InlineTexts :
           LET two == process_characters(process_characters(Cur, t1), t2)
               one == process_characters(Cur, t1 \o t2)
           IN /\ two = one
              /\ flush_text(two) = flush_text(one)
              /\ emit_panics(two) = emit_panics(one)
              /\ ~emit_panics(one) => emit_doc(two) = emit_doc(one)
      /\ flush_text(flush_text(Cur)) = flush_text(Cur)

\* two character events have arrived in a row inside a paragraph
C10_TwoCharEvents ==
    /\ status = "running"
    /\ last.kind = "chars"
    /\ current_text = <<"a", " ", "\n">>
    /\ Last(stack).k = "Paragraph"

-----------------------------------------------------------------------------
(* adf_to_html, as the tokens html5ever makes of the string it writes *)

StartTok(tag, attrs) == [kind |-> "start", el |-> Element(tag, attrs), text |-> <<>>]
EndTok(tag) == [kind |-> "end", el |-> El(tag), text |-> <<>>]
CharTok(text) == [kind |-> "chars", el |-> El(""), text |-> text]

\* html_builder: Node::child writes <tag attrs>, the children, </tag>;
\* Node::void_child writes <tag />; write! of an empty string writes nothing
NodeTokens(tag, attrs, body) == <<StartTok(tag, attrs)>> \o body \o <<EndTok(tag)>>
VoidTokens(tag) == <<StartTok(tag, NoAttrs)>>
TextTokens(text) == IF text = <<>> THEN <<>> ELSE <<CharTok(text)>>

StyleAttr(name, value) == [n \in {"style"} |-> <<<<name, value>>>>]

\* the element apply_marks wraps the text in for one mark
MarkTag(mark) ==
    CASE mark.m = "Strong" -> "strong"
      [] mark.m = "Em" -> "em"
      [] mark.m = "Code" -> "code"
      [] mark.m = "Link" -> "a"
      [] mark.m = "Strike" -> "del"
      [] mark.m = "Sub" -> "sub"
      [] mark.m = "Sup" -> "sup"
      [] mark.m \in {"Underline", "TextColor", "BackgroundColor"} -> "span"
MarkAttrs(mark) ==
    CASE mark.m = "Link" -> [n \in {"href"} |-> mark.href]
      [] mark.m = "Underline" -> StyleAttr("text-decoration", "underline")
      [] mark.m = "TextColor" -> StyleAttr("color", mark.color)
      [] mark.m = "BackgroundColor" -> StyleAttr("background-color", mark.color)
      [] OTHER -> NoAttrs

RECURSIVE apply_marks(_, _)
apply_marks(marks, text) ==
    IF marks = <<>> THEN TextTokens(text)
    ELSE NodeTokens(MarkTag(Head(marks)), MarkAttrs(Head(marks)),
                    apply_marks(Tail(marks), text))

\* id="{local_id}" type=checkbox {checked}: the attributes of adf-task-item
TaskItemAttrs(item) ==
    [a \in {"id", "type"} \cup (IF item.state = "DONE" THEN {"checked"} ELSE {}) |->
        CASE a = "id" -> item.local_id [] a = "type" -> "checkbox" [] OTHER -> ""]

\* data-tag="{tag}" id="{local_id}": the attributes of adf-local-data
LocalDataAttrs(tag, local_id) ==
    [a \in {"data-tag", "id"} |-> IF a = "id" THEN local_id ELSE tag]

\* DateTime::from_timestamp_millis(ts_ms).unwrap_or_default().to_rfc3339():
\* the timestamp number is read as milliseconds after the epoch
ToRfc3339FromMillis(ts_ms) == [rfc3339 |-> TRUE, ms |-> ts_ms]

IsHeaderRow(row) == \E i \in 1..Len(row.content) : row.content[i].t = "TableHeader"
IsBodyRow(row) == ~IsHeaderRow(row)

RECURSIVE inner_adf_to_html(_)
RECURSIVE inner_block_adf_to_html(_)
RECURSIVE RowsToHtml(_)

\* the tr elements of the rows of one table section
RowsToHtml(rows) ==
    IF rows = <<>> THEN <<>>
    ELSE NodeTokens("tr", NoAttrs, inner_adf_to_html(Head(rows).content))
         \o RowsToHtml(Tail(rows))

inner_adf_to_html(adf) ==
    IF adf = <<>> THEN <<>>
    ELSE LET n == Head(adf) IN
      (CASE n.t = "HardBreak" -> VoidTokens("br")
         [] n.t = "ListItem" -> NodeTokens("li", NoAttrs, inner_block_adf_to_html(n.content))
         [] n.t = "TableCell" -> NodeTokens("td", NoAttrs, inner_block_adf_to_html(n.content))
         [] n.t = "TableHeader" -> NodeTokens("th", NoAttrs, inner_block_adf_to_html(n.content))
         [] n.t = "TableRow" -> NodeTokens("tr", NoAttrs, inner_adf_to_html(n.content))
         [] n.t = "Text" -> apply_marks(IF IsSome(n.marks) THEN Unwrap(n.marks) ELSE <<>>,
                                        n.text)
         [] n.t = "Date" ->
              LET date_str == ToRfc3339FromMillis(n.timestamp)
              IN NodeTokens("time", [a \in {"datetime"} |-> date_str],
                            TextTokens(<<ToString(date_str.ms)>>))
         [] n.t = "TaskItem" ->
              NodeTokens("li", NoAttrs,
                NodeTokens("adf-task-item", TaskItemAttrs(n), <<>>)
                \o inner_block_adf_to_html(n.content))
         [] n.t = "DecisionItem" ->
              NodeTokens("li", NoAttrs,
                NodeTokens("adf-decision-item", [a \in {"id"} |-> n.local_id],
                           inner_block_adf_to_html(n.content)))
         [] OTHER -> <<>>)
      \o inner_adf_to_html(Tail(adf))

inner_block_adf_to_html(adf) ==
    IF adf = <<>> THEN <<>>
    ELSE LET n == Head(adf)
             OptContent == IF IsSome(n.content) THEN inner_adf_to_html(Unwrap(n.content))
                           ELSE <<>>
      IN
      (CASE n.t = "Blockquote" ->
              NodeTokens("blockquote", NoAttrs, inner_block_adf_to_html(n.content))
         [] n.t = "BulletList" -> NodeTokens("ul", NoAttrs, inner_adf_to_html(n.content))
         [] n.t = "OrderedList" -> NodeTokens("ol", NoAttrs, inner_adf_to_html(n.content))
         [] n.t = "CodeBlock" ->
              NodeTokens("pre", NoAttrs,
                NodeTokens("code",
                           IF IsSome(n.attrs) THEN [a \in {"class"} |-> Unwrap(n.attrs)]
                           ELSE NoAttrs,
                           OptContent))
         [] n.t = "Doc" -> NodeTokens("div", NoAttrs, inner_block_adf_to_html(n.content))
         [] n.t = "Heading" ->
              NodeTokens(IF n.level \in 1..6 THEN <<"h1", "h2", "h3", "h4", "h5", "h6">>[n.level]
                         ELSE "h6", NoAttrs, OptContent)
         [] n.t = "Paragraph" -> NodeTokens("p", NoAttrs, OptContent)
         [] n.t = "Rule" -> VoidTokens("hr")
         [] n.t = "Table" ->
              LET header_rows == SelectSeq(n.content, IsHeaderRow)
                  body_rows == SelectSeq(n.content, IsBodyRow)
              IN NodeTokens("table", NoAttrs,
                   (IF header_rows # <<>>
                    THEN NodeTokens("thead", NoAttrs, RowsToHtml(header_rows)) ELSE <<>>)
                   \o (IF body_rows # <<>>
                       THEN NodeTokens("tbody", NoAttrs, RowsToHtml(body_rows)) ELSE <<>>))
         [] n.t = "TaskList" ->
              NodeTokens("adf-local-data", LocalDataAttrs("task-list", n.local_id), <<>>)
              \o NodeTokens("ul", NoAttrs, inner_adf_to_html(n.content))
         [] n.t = "DecisionList" ->
              NodeTokens("adf-local-data", LocalDataAttrs("decision-list", n.local_id), <<>>)
              \o NodeTokens("ul", NoAttrs, inner_adf_to_html(n.content))
         [] OTHER -> <<>>)
      \o inner_block_adf_to_html(Tail(adf))

adf_to_html(adf) == NodeTokens("body", NoAttrs, inner_block_adf_to_html(adf))

-----------------------------------------------------------------------------
(* The round trip html_to_adf(adf_to_html([T])) (specification SpecRoundTrip) *)

Plain(text) == Text(text, None)
Para(text) == Paragraph(Some(<<Plain(text)>>))
DocOf(content) == Doc(content, 1)

\* documents of the supported node kinds
Trees ==
    { DocOf(<<Para(<<"a">>)>>),
      DocOf(<<Heading(2, Some(<<Plain(<<"a">>)>>))>>),
      DocOf(<<BulletList(<<ListItem(<<Para(<<"a">>)>>), ListItem(<<Para(<<"b">>)>>)>>)>>),
      DocOf(<<OrderedList(None, <<ListItem(<<Para(<<"a">>)>>)>>)>>),
      DocOf(<<Blockquote(<<Para(<<"a">>)>>)>>),
      DocOf(<<CodeBlock(None, Some(<<Plain(<<"a">>)>>))>>),
      DocOf(<<Para(<<"a">>), Rule, Para(<<"b">>)>>),
      DocOf(<<Table(None, <<TableRow(<<TableHeader(<<Para(<<"a">>)>>, None)>>),
                            TableRow(<<TableCell(<<>>, None)>>)>>)>>),
      DocOf(<<Paragraph(Some(<<Plain(<<"a">>), HardBreak, Plain(<<"b">>)>>))>>),
      DocOf(<<Paragraph(Some(<<Text(<<"a">>, Some(<<Mark("Strong"), Mark("Em")>>))>>))>>),
      DocOf(<<Paragraph(Some(<<Text(<<"a">>, Some(<<LinkMark("u"), Mark("Strike")>>))>>))>>),
      DocOf(<<Paragraph(Some(<<Text(<<"a">>, Some(<<Mark("Underline")>>))>>))>>),
      DocOf(<<Paragraph(Some(<<>>))>>),
      DocOf(<<Paragraph(Some(<<Plain(<<"a">>), Plain(<<"b">>)>>))>>),
      DocOf(<<Table(None, <<TableRow(<<TableCell(<<Para(<<"a">>)>>, None)>>),
                            TableRow(<<TableHeader(<<Para(<<"b">>)>>, None)>>)>>)>>) }

\* task lists: items Todo or Done with their own local ids
TaskTrees ==
    { DocOf(<<TaskList("L1", <<TaskItem(<<Para(<<"a">>)>>, "TODO", "i1"),
                               TaskItem(<<Para(<<"b">>)>>, "DONE", "i2")>>)>>),
      DocOf(<<TaskList("L2", <<TaskItem(<<Para(<<"a">>)>>, "DONE", "i1")>>)>>),
      DocOf(<<TaskList("", <<TaskItem(<<>>, "TODO", "i1"), TaskItem(<<>>, "DONE", "i2")>>)>>) }

\* a paragraph holding one Date; the timestamp is the number its decimal
\* string denotes
DateStamps == {0, 1, 999, 1000, 86400000, 1700000000}
DateTrees == { DocOf(<<Paragraph(Some(<<Date(t)>>))>>) : t \in DateStamps }

\* one heading per level of the u8 range worth telling apart
HeadingLevels == (0..8) \cup {255}
HeadingTrees == { DocOf(<<Heading(n, Some(<<Plain(<<"a">>)>>))>>) : n \in HeadingLevels }

AllTrees == Trees \cup TaskTrees \cup DateTrees \cup HeadingTrees

InitRoundTrip ==
    /\ stack = NewState.stack
    /\ mark_stack = NewState.mark_stack
    /\ current_text = NewState.current_text
    /\ custom_block_id = NewState.custom_block_id
    /\ custom_block_tag = NewState.custom_block_tag
    /\ status = "running"
    /\ doc = None
    /\ last = Event("new", "", <<>>)
    /\ nev = 0
    /\ \E T \in AllTrees : src = Some(T) /\ input = adf_to_html(<<T>>)
    /\ dom = <<>> /\ parsed = <<>> /\ output = None

\* tok.feed: the tokenizer hands the next token to process_token
FeedStart ==
    /\ input # <<>> /\ Head(input).kind = "start"
    /\ OnStartTag(Head(input).el)
    /\ input' = Tail(input)

FeedEnd ==
    /\ input # <<>> /\ Head(input).kind = "end"
    /\ OnEndTag(Head(input).el)
    /\ input' = Tail(input)

FeedChars ==
    /\ input # <<>> /\ Head(input).kind = "chars"
    /\ OnCharacters(Head(input).text)
    /\ input' = Tail(input)

\* tok.end(); tok.sink.emit()
EmitAtEnd == input = <<>> /\ Emit

NextRoundTrip == FeedStart \/ FeedEnd \/ FeedChars \/ EmitAtEnd

SpecRoundTrip == InitRoundTrip /\ [][NextRoundTrip]_vars

\* C1: for every document T of the supported node kinds,
\* html_to_adf(adf_to_html([T])) is T.
C1_RoundTripIdentity ==
    (src # None /\ Unwrap(src) \in Trees /\ status # "running")
    => (status = "emitted" /\ doc = src)

\* C12: a TaskList whose items are Todo or Done, each with its own local id,
\* comes back from html_to_adf(adf_to_html(..)) unchanged and without a fault.
C12_TaskListRoundTrip ==
    (src # None /\ Unwrap(src) \in TaskTrees /\ status # "running")
    => (status = "emitted" /\ doc = src)

\* the mark stack as a Text node records it
Snapshot(marks) == IF marks = <<>> THEN None ELSE Some(marks)

\* C11: a Text node produced by a flush carries the marks active at the
\* moment of the flush, in the order they were pushed, and no marks field when
\* none is active; marks pushed or popped afterwards change no Text node that
\* was already produced.
C11_Step ==
    (/\ IsStartOf({"strong", "em", "code"}) \/ IsEndOf({"strong", "code"})
     /\ stack # <<>> /\ Last(stack).k = "Paragraph")
    => LET old == Last(stack).nodes
           new == stack'[Len(stack)].nodes
           text == clean_surrounding_text(current_text)
       IN /\ status' = "running" /\ Len(stack') = Len(stack)
          /\ SubSeq(new, 1, Len(old)) = old
          /\ IF Trim(text) = <<>> THEN new = old
             ELSE new = Append(old, Text(text, Snapshot(mark_stack)))
C11_MarksSnapshot == [][C11_Step]_vars

\* <p><strong><em>a</strong>: the run was flushed with [strong, em]
C11_TwoMarksFlushed ==
    /\ status = "running"
    /\ Len(stack) = 2 /\ Last(stack).k = "Paragraph"
    /\ Last(stack).nodes = <<Text(<<"a">>, Some(<<Mark("Strong"), Mark("Em")>>))>>
    /\ mark_stack = <<Mark("Strong")>>

\* C13: a Date node with timestamp t, rendered as <time datetime=..> and parsed
\* back, is a Date node with the same timestamp t.
C13_DateRoundTrip ==
    (src # None /\ Unwrap(src) \in DateTrees /\ status # "running")
    => (status = "emitted" /\ doc = src)

-----------------------------------------------------------------------------
(* Line breaks (specification SpecBreak) *)

MaxBreakEvents == 5

BreakStarts == {El("p"), El("br"), El("strong")}
BreakEnds == {El("p"), El("strong")}
BreakTexts == {<<"a">>, <<"b">>, <<" ">>}

NextBreak ==
    \/ \E el \in BreakStarts : nev < MaxBreakEvents /\ StartTag(el)
    \/ \E el \in BreakEnds : nev < MaxBreakEvents /\ EndTag(el)
    \/ \E t \in BreakTexts : nev < MaxBreakEvents /\ Characters(t)
    \/ Emit

SpecBreak == InitBuilder /\ [][NextBreak]_vars

\* C14: a br start tag inside a paragraph appends to the paragraph the pending
\* text (as one Text node, when it is not blank) and then a HardBreak, and
\* leaves no pending text: the children stay in source order.
C14_Step ==
    (IsStartOf({"br"}) /\ stack # <<>> /\ Last(stack).k = "Paragraph")
    => LET old == Last(stack).nodes
           new == stack'[Len(stack)].nodes
           text == clean_surrounding_text(current_text)
       IN /\ status' = "running" /\ Len(stack') = Len(stack)
          /\ current_text' = <<>>
          /\ new = (IF Trim(text) = <<>> THEN old
                    ELSE Append(old, Text(text, Snapshot(mark_stack))))
                   \o <<HardBreak>>
C14_BreakInSourceOrder == [][C14_Step]_vars

\* <p>a<br/>b</p> has been parsed: Text a, HardBreak, Text b in one paragraph
C14_TextBreakText ==
    /\ status = "running" /\ Len(stack) = 1
    /\ stack[1].nodes = <<Paragraph(Some(<<Plain(<<"a">>), HardBreak, Plain(<<"b">>)>>))>>

-----------------------------------------------------------------------------
(* Lists of inline items (specification SpecList) *)

MaxItems == 3

\* the runs of one li: text, in strong or not
Run(text, strong) == [text |-> text, strong |-> strong]
ItemShapes ==
    { <<Run(<<"a">>, FALSE)>>, <<Run(<<"b">>, TRUE)>>,
      <<Run(<<"a">>, TRUE), Run(<<"b">>, FALSE)>> }

RECURSIVE SeqsUpTo(_, _)
SeqsUpTo(S, n) ==
    IF n = 0 THEN {<<>>}
    ELSE LET shorter == SeqsUpTo(S, n - 1)
         IN shorter \cup { Append(q, x) : q \in shorter, x \in S }

\* the list inputs: ul or ol, 1..MaxItems items, with or without white space
\* between the items
ListInputs ==
    { [ordered |-> o, spaced |-> sp, items |-> it] :
        o \in BOOLEAN, sp \in BOOLEAN, it \in SeqsUpTo(ItemShapes, MaxItems) \ {<<>>} }

RunTokens(run) ==
    IF run.strong THEN NodeTokens("strong", NoAttrs, TextTokens(run.text))
    ELSE TextTokens(run.text)

RECURSIVE RunsTokens(_)
RunsTokens(runs) ==
    IF runs = <<>> THEN <<>> ELSE RunTokens(Head(runs)) \o RunsTokens(Tail(runs))

RECURSIVE ItemsTokens(_, _)
ItemsTokens(items, spaced) ==
    IF items = <<>> THEN <<>>
    ELSE (IF spaced THEN <<CharTok(<<"\n", " ">>)>> ELSE <<>>)
         \o NodeTokens("li", NoAttrs, RunsTokens(Head(items)))
         \o ItemsTokens(Tail(items), spaced)

ListHtml(l) ==
    NodeTokens(IF l.ordered THEN "ol" ELSE "ul", NoAttrs, ItemsTokens(l.items, l.spaced))

InitList ==
    /\ stack = NewState.stack
    /\ mark_stack = NewState.mark_stack
    /\ current_text = NewState.current_text
    /\ custom_block_id = NewState.custom_block_id
    /\ custom_block_tag = NewState.custom_block_tag
    /\ status = "running"
    /\ doc = None
    /\ last = Event("new", "", <<>>)
    /\ nev = 0
    /\ \E l \in ListInputs : src = Some(l) /\ input = ListHtml(l)
    /\ dom = <<>> /\ parsed = <<>> /\ output = None

SpecList == InitList /\ [][NextRoundTrip]_vars

RunText(run) == Text(run.text, IF run.strong THEN Some(<<Mark("Strong")>>) ELSE None)
ItemOf(runs) == ListItem(<<Paragraph(Some([i \in 1..Len(runs) |-> RunText(runs[i])]))>>)
ItemsOf(items) == [i \in 1..Len(items) |-> ItemOf(items[i])]

\* C15: a ul (ol) whose li elements hold only inline text parses to exactly
\* one BulletList (OrderedList) with one ListItem per li, in source order, each
\* holding exactly one Paragraph with the item's text.
C15_ListOfParagraphItems ==
    (src # None /\ status # "running")
    => /\ status = "emitted"
       /\ doc # None
       /\ Len(Unwrap(doc).content) = 1
       /\ LET list == Unwrap(doc).content[1]
              l == Unwrap(src)
          IN /\ list.t = (IF l.ordered THEN "OrderedList" ELSE "BulletList")
             /\ list.content = ItemsOf(l.items)

\* an ol of three items, the last with two runs, has been parsed
C15_ThreeItemsParsed ==
    /\ status = "emitted" /\ src # None
    /\ Unwrap(src).ordered /\ Unwrap(src).spaced /\ Len(Unwrap(src).items) = MaxItems
    /\ Len(Unwrap(src).items[MaxItems]) = 2
    /\ Len(Unwrap(doc).content[1].content) = MaxItems

-----------------------------------------------------------------------------
(* Heading levels *)

SrcLevel == Unwrap(src).content[1].level
ClampedLevel(n) == IF 1 <= n /\ n <= 6 THEN n ELSE 6
LevelTag(n) ==
    CASE n = 1 -> "h1" [] n = 2 -> "h2" [] n = 3 -> "h3"
      [] n = 4 -> "h4" [] n = 5 -> "h5" [] n = 6 -> "h6"

\* C16: a heading of level n is rendered as h<n> when 1 <= n <= 6 and as h6
\* otherwise; parsing the rendered HTML gives a heading of level n when
\* 1 <= n <= 6 and 6 otherwise.
C16_HeadingLevelClamped ==
    (src # None /\ Unwrap(src) \in HeadingTrees)
    => /\ nev = 0 =>
            \E i \in 1..Len(input) :
               /\ input[i].kind = "start" /\ input[i].el.tag = LevelTag(ClampedLevel(SrcLevel))
               /\ \A j \in 1..Len(input) : input[j].el.tag \in HeadingTags => j >= i
       /\ status # "running" =>
            /\ status = "emitted"
            /\ doc = Some(DocOf(<<Heading(ClampedLevel(SrcLevel), Some(<<Plain(<<"a">>)>>))>>))

\* a heading of level 7 has come back as a heading of level 6
C16_SevenBecomesSix ==
    /\ src # None /\ Unwrap(src) \in HeadingTrees /\ SrcLevel = 7
    /\ status = "emitted" /\ Unwrap(doc).content[1].level = 6

-----------------------------------------------------------------------------
(* Styled spans (specification SpecSpan) *)

StyleRules == {<<"color", "green">>, <<"background-color", "black">>, <<"font-weight", "bold">>}

\* style attributes: up to two different rules, in either order
SpanStyles ==
    {<<>>} \cup { <<r>> : r \in StyleRules }
           \cup ({ <<r, q>> : r, q \in StyleRules } \ { <<r, r>> : r \in StyleRules })

\* <p>[<strong>]<span style=..>a</span>b[</strong>]</p>, or a span without
\* a style attribute
SpanInputs ==
    { [styled |-> st, style |-> sty, strong |-> w] :
        st \in BOOLEAN, sty \in SpanStyles, w \in BOOLEAN }

SpanHtml(i) ==
    LET span == NodeTokens("span",
                           IF i.styled THEN [n \in {"style"} |-> i.style] ELSE NoAttrs,
                           TextTokens(<<"a">>))
        body == span \o TextTokens(<<"b">>)
    IN NodeTokens("p", NoAttrs,
                  IF i.strong THEN NodeTokens("strong", NoAttrs, body) ELSE body)

InitSpan ==
    /\ stack = NewState.stack
    /\ mark_stack = NewState.mark_stack
    /\ current_text = NewState.current_text
    /\ custom_block_id = NewState.custom_block_id
    /\ custom_block_tag = NewState.custom_block_tag
    /\ status = "running"
    /\ doc = None
    /\ last = Event("new", "", <<>>)
    /\ nev = 0
    /\ \E i \in SpanInputs : src = Some(i) /\ input = SpanHtml(i)
    /\ dom = <<>> /\ parsed = <<>> /\ output = None

SpecSpan == InitSpan /\ [][NextRoundTrip]_vars

HasRule(style, name) == \E k \in 1..Len(style) : style[k][1] = name
RuleValue(style, name) ==
    style[CHOOSE k \in 1..Len(style) :
            style[k][1] = name /\ \A j \in 1..(k - 1) : style[j][1] # name][2]

\* the marks a span is to push: TextColor, then BackgroundColor
SpanMarks(i) ==
    IF ~i.styled THEN <<>>
    ELSE (IF HasRule(i.style, "color")
          THEN <<TextColor(RuleValue(i.style, "color"))>> ELSE <<>>)
         \o (IF HasRule(i.style, "background-color")
             THEN <<BackgroundColor(RuleValue(i.style, "background-color"))>> ELSE <<>>)

OuterMarks(i) == IF i.strong THEN <<Mark("Strong")>> ELSE <<>>

\* C17: a span whose style sets color and background-color pushes TextColor
\* then BackgroundColor, a style with one of them pushes that one mark, and
\* the span end tag removes exactly the marks the span pushed: the text in
\* the span carries the span's marks and the text after it carries none of
\* them (and still carries the marks of the elements around the span).
C17_SpanMarks ==
    (src # None /\ status # "running")
    => /\ status = "emitted"
       /\ doc = Some(DocOf(<<Paragraph(Some(
                   <<Text(<<"a">>, Snapshot(OuterMarks(Unwrap(src)) \o SpanMarks(Unwrap(src)))),
                     Text(<<"b">>, Snapshot(OuterMarks(Unwrap(src))))>>))>>))

-----------------------------------------------------------------------------
(* code inside and outside pre (specification SpecCode) *)

MaxCodeEvents == 5

CodeStarts == {El("p"), El("pre"), El("code"), El("strong")}
CodeEnds == {El("p"), El("pre"), El("code"), El("strong")}
CodeTexts == {<<"a">>, <<" ">>}

NextCode ==
    \/ \E el \in CodeStarts : nev < MaxCodeEvents /\ StartTag(el)
    \/ \E el \in CodeEnds : nev < MaxCodeEvents /\ EndTag(el)
    \/ \E t \in CodeTexts : nev < MaxCodeEvents /\ Characters(t)
    \/ Emit

SpecCode == InitBuilder /\ [][NextCode]_vars

PreOpen == \E i \in 1..Len(stack) : stack[i].k = "CodeBlock"
LastCode(marks) == RPosition(marks, {"Code"}, Len(marks))
WithoutLastCode(marks) ==
    IF LastCode(marks) = 0 THEN marks ELSE RemoveAt(marks, LastCode(marks))

\* the pending text, flushed by the tag into the top frame
FlushedInto(kind, entry) ==
    (stack # <<>> /\ Last(stack).k = kind /\ Trim(current_text) # <<>>)
    => /\ Len(stack') = Len(stack)
       /\ stack'[Len(stack)].nodes = Append(Last(stack).nodes, entry)

\* C18: while a pre frame is open, a code start tag and a code end tag leave
\* the mark stack unchanged and the text they flush is code-block text
\* without marks; with no pre frame open, the start tag pushes a Code mark and
\* the end tag removes the last Code mark, the text flushed by the end tag
\* carrying the marks active inside the pair.
C18_Step ==
    (IsStartOf({"code"}) \/ IsEndOf({"code"}))
    => /\ status' = "running"
       /\ current_text' = <<>>
       /\ IF PreOpen
          THEN /\ mark_stack' = mark_stack
               /\ FlushedInto("CodeBlock", current_text)
          ELSE /\ IsStartOf({"code"}) => mark_stack' = Append(mark_stack, Mark("Code"))
               /\ IsEndOf({"code"}) => mark_stack' = WithoutLastCode(mark_stack)
               /\ FlushedInto("Paragraph",
                              Text(clean_surrounding_text(current_text), Snapshot(mark_stack)))
C18_CodeInAndOutOfPre == [][C18_Step]_vars

\* <p><code>a</code>a: the text in the pair carries [code], the pair is closed
\* and no mark is active for the text after it
C18_InlineCodeClosed ==
    /\ status = "running" /\ Len(stack) = 2 /\ Last(stack).k = "Paragraph"
    /\ Last(stack).nodes = <<Text(<<"a">>, Some(<<Mark("Code")>>))>>
    /\ mark_stack = <<>> /\ current_text = <<"a">>
    /\ last.kind = "chars"

-----------------------------------------------------------------------------
(* html_sanitize.rs (specification SpecSanitize) *)

\* markup5ever_rcdom::Node: the element name (or "#text", "#document"), the
\* text of a text node, the children (node numbers, in order) and the parent
\* pointer (0 when it is None)
DomNode(name, text, children, parent) ==
    [name |-> name, text |-> text, children |-> children, parent |-> parent]

\* make_text_node: a text node with no parent
make_text_node(text) == DomNode("#text", text, <<>>, 0)

is_known_block_element(h, id) ==
    h[id].name \in {"details", "summary", "adf-media-group", "table"}

Reverse(seq) == [i \in 1..Len(seq) |-> seq[Len(seq) + 1 - i]]

\* the position of id in ids, 0 if it is not there
RECURSIVE Position(_, _, _)
Position(ids, id, i) ==
    IF i > Len(ids) THEN 0
    ELSE IF ids[i] = id THEN i
    ELSE Position(ids, id, i + 1)

\* the while loop of unwrap_nested_anchors, from index i (1-based): a child
\* that is an anchor is replaced by copies of its direct text children, and
\* the loop stays at the same index
RECURSIVE unwrap_from(_, _, _)
unwrap_from(h, id, i) ==
    LET children == h[id].children IN
    IF i > Len(children) THEN h
    ELSE IF h[children[i]].name = "a"
    THEN LET IsTextNode(k) == h[k].name = "#text"
             text_nodes == SelectSeq(h[children[i]].children, IsTextNode)
             inserts == [j \in 1..Len(text_nodes) |-> make_text_node(h[text_nodes[j]].text)]
             ids == [j \in 1..Len(text_nodes) |-> Len(h) + j]
         IN unwrap_from([(h \o inserts) EXCEPT ![id].children =
                            SubSeq(children, 1, i - 1) \o ids
                            \o SubSeq(children, i + 1, Len(children))],
                        id, i)
    ELSE unwrap_from(h, id, i + 1)

unwrap_nested_anchors(h, id) == unwrap_from(h, id, 1)

\* the p arm of sanitize_node: when a child is a known block, the paragraph is
\* removed from the children of its parent and each of its children is
\* inserted at the paragraph's index, one after the other at the same index
hoist_paragraph(h, id) ==
    LET has_block == \E i \in 1..Len(h[id].children) :
                        is_known_block_element(h, h[id].children[i])
        parent == h[id].parent
    IN IF ~has_block \/ parent = 0 THEN h
       ELSE LET parent_children == h[parent].children
                index == Position(parent_children, id, 1)
            IN IF index = 0 THEN h
               ELSE [h EXCEPT ![parent].children =
                        SubSeq(parent_children, 1, index - 1)
                        \o Reverse(h[id].children)
                        \o SubSeq(parent_children, index + 1, Len(parent_children))]

RECURSIVE sanitize_node(_, _)
RECURSIVE sanitize_children(_, _)
sanitize_node(h, id) ==
    LET visited == IF h[id].name = "a" THEN unwrap_nested_anchors(h, id)
                   ELSE IF h[id].name = "p" THEN hoist_paragraph(h, id)
                   ELSE h
    IN sanitize_children(visited, visited[id].children)

\* `for child in to_recurse { sanitize_node(&child) }`
sanitize_children(h, to_recurse) ==
    IF to_recurse = <<>> THEN h
    ELSE sanitize_children(sanitize_node(h, Head(to_recurse)), Tail(to_recurse))

\* serialize: the tree under a node, as the children lists give it
RECURSIVE serialize(_, _)
serialize(h, id) ==
    [name |-> h[id].name, text |-> h[id].text,
     kids |-> [i \in 1..Len(h[id].children) |-> serialize(h, h[id].children[i])]]

\* --- the documents parse_document hands to the sanitizer ---

MaxNodes == 4

ElemNames == {"p", "a", "table", "details", "adf-media-group", "object"}

Elem(name, kids) == [name |-> name, text |-> "", kids |-> kids]
TextNode(text) == [name |-> "#text", text |-> text, kids |-> <<>>]

\* --- what the tree builder of parse_document can build (no doctype: quirks
\* mode). A table is kept empty here. A start tag p or details closes the p
\* in button scope, so a p has a p or details below it only behind an object
\* (a scope boundary), or as a child that was foster-parented out of a table:
\* the child right before a table child. A start tag a closes the a in the
\* list of active formatting elements, so an a has an a below it only behind
\* an object (a marker), or as a foster-parented child. A start tag table inside a table closes that table,
\* so a foster-parented child holds no table. Adjacent text is one text node.

RECURSIVE HasAny(_, _)
HasAny(forest, names) ==
    \E i \in 1..Len(forest) :
        forest[i].name \in names \/ HasAny(forest[i].kids, names)

RECURSIVE HasOpen(_, _)
HasOpen(forest, names) ==
    \E i \in 1..Len(forest) :
        \/ forest[i].name \in names
        \/ forest[i].name # "object" /\ HasOpen(forest[i].kids, names)

NoAdjacentText(forest) ==
    \A i \in 1..(Len(forest) - 1) :
        ~(forest[i].name = "#text" /\ forest[i + 1].name = "#text")

\* child i was foster-parented: it stands right before a table child
FosterParented(kids, i) ==
    /\ i < Len(kids) /\ kids[i + 1].name = "table"
    /\ ~HasAny(kids[i].kids, {"table"})

\* below a node that a start tag in `closing` closes, a node named in
\* `closing` is a foster-parented child or lies behind an object
NotClosed(kids, closing) ==
    \A i \in 1..Len(kids) :
        IF kids[i].name \in closing THEN FosterParented(kids, i)
        ELSE kids[i].name = "object" \/ ~HasOpen(kids[i].kids, closing)

\* the rules for one node whose children can be built
ParserCanBuild(tree) ==
    LET kids == tree.kids IN
    /\ tree.name = "table" => kids = <<>>
    /\ tree.name = "p" => NotClosed(kids, {"p", "details"})
    /\ tree.name = "a" => NotClosed(kids, {"a"})
    /\ NoAdjacentText(kids)

\* the trees of exactly n nodes and the forests of exactly n nodes that the
\* tree builder can build
RECURSIVE TreesOfSize(_)
RECURSIVE Forests(_)
TreesOfSize(n) ==
    IF n = 0 THEN {}
    ELSE (IF n = 1 THEN {TextNode("t")} ELSE {})
         \cup { t \in { Elem(name, f) : name \in ElemNames, f \in Forests(n - 1) } :
                  ParserCanBuild(t) }
Forests(n) ==
    IF n = 0 THEN {<<>>}
    ELSE UNION { { <<t>> \o f : t \in TreesOfSize(k), f \in Forests(n - k) } : k \in 1..n }

\* the content of body: at most max_nodes nodes
BodyContents(max_nodes) ==
    { f \in UNION { Forests(n) : n \in 1..max_nodes } : NoAdjacentText(f) }

\* the nodes of a tree, appended to h under the given parent
RECURSIVE AddTree(_, _, _)
RECURSIVE AddForest(_, _, _)
AddTree(h, tree, parent) ==
    LET id == Len(h) + 1
        linked == IF parent = 0 THEN h
                  ELSE [h EXCEPT ![parent].children = Append(@, id)]
    IN AddForest(Append(linked, DomNode(tree.name, tree.text, <<>>, parent)), tree.kids, id)
AddForest(h, forest, parent) ==
    IF forest = <<>> THEN h
    ELSE AddForest(AddTree(h, Head(forest), parent), Tail(forest), parent)

\* #document > html > (head, body > content)
DocumentOf(content) ==
    AddTree(<<>>, [name |-> "#document", text |-> "",
                   kids |-> <<Elem("html", <<Elem("head", <<>>), Elem("body", content)>>)>>], 0)

InitSanitize ==
    /\ stack = NewState.stack
    /\ mark_stack = NewState.mark_stack
    /\ current_text = NewState.current_text
    /\ custom_block_id = NewState.custom_block_id
    /\ custom_block_tag = NewState.custom_block_tag
    /\ status = "running"
    /\ doc = None
    /\ last = Event("new", "", <<>>)
    /\ nev = 0
    /\ input = <<>>
    /\ src = None
    /\ \E content \in BodyContents(MaxNodes) : dom = DocumentOf(content)
    /\ parsed = dom
    /\ output = None

\* sanitize_html_structure after parse_document: sanitize_node(&dom.document)
\* and the serialization of the document
SanitizeHtmlStructure ==
    /\ output = None
    /\ dom' = sanitize_node(dom, 1)
    /\ output' = Some(serialize(dom', 1))
    /\ UNCHANGED parsed
    /\ UNCHANGED builder_vars

NextSanitize == SanitizeHtmlStructure

SpecSanitize == InitSanitize /\ [][NextSanitize]_vars

\* the nodes of the document: those the children lists reach from the root
RECURSIVE Under(_, _)
Under(h, id) ==
    {id} \cup UNION { Under(h, h[id].children[i]) : i \in 1..Len(h[id].children) }
InDocument(h) == Under(h, 1)

HoistedBlocks == {"details", "table", "adf-media-group"}
ChildrenOf(h, id) == { h[id].children[i] : i \in 1..Len(h[id].children) }

\* C19: after sanitize_html_structure no p element of the document has a
\* details, table or adf-media-group element as a direct child, and every
\* such block that was a direct child of a p is in the document as a child of
\* the former parent of that p.
C19_NoBlockInParagraph ==
    output # None
    => /\ \A p \in InDocument(dom) :
            dom[p].name = "p"
            => \A b \in ChildrenOf(dom, p) : dom[b].name \notin HoistedBlocks
       /\ \A p \in InDocument(parsed) :
            parsed[p].name = "p"
            => \A b \in ChildrenOf(parsed, p) :
                  parsed[b].name \in HoistedBlocks
                  => /\ b \in InDocument(dom)
                     /\ b \in ChildrenOf(dom, parsed[p].parent)

\* C20: after sanitize_html_structure no a element of the document has an a
\* element below it, at any depth: the nested anchors have been replaced by
\* their text.
C20_NoNestedAnchors ==
    output # None
    => \A a \in InDocument(dom) :
          dom[a].name = "a"
          => \A d \in Under(dom, a) \ {a} : dom[d].name # "a"

-----------------------------------------------------------------------------
(* Tags without a handler (specification SpecForeign) *)

MaxForeignEvents == 4

LocalData(tag, id) ==
    Element("adf-local-data", [n \in {"data-tag", "id"} |-> IF n = "id" THEN id ELSE tag])

\* section and b have no handler at all, summary none for its start tag,
\* br and adf-local-data none for their end tags
ForeignStarts ==
    {El("p"), El("strong"), LocalData("task-list", "L1"), El("section"), El("summary"), El("b")}
ForeignEnds == {El("p"), El("section"), El("br"), El("adf-local-data"), El("b")}
ForeignTexts == {<<"a">>, <<" ">>}

NextForeign ==
    \/ \E el \in ForeignStarts : nev < MaxForeignEvents /\ StartTag(el)
    \/ \E el \in ForeignEnds : nev < MaxForeignEvents /\ EndTag(el)
    \/ \E t \in ForeignTexts : nev < MaxForeignEvents /\ Characters(t)
    \/ Emit

SpecForeign == InitBuilder /\ [][NextForeign]_vars

\* C21: a start or end tag whose name has no custom handler and no base
\* handler for that kind of tag leaves the frame stack, the mark stack, the
\* pending text and both side-channel fields as they were, and runs no handler.
C21_Step ==
    (/\ IsEventStep /\ last'.kind \in {"start", "end"}
     /\ ~HasCustomHandler(last') /\ ~HasBaseHandler(last'))
    => /\ status' = "running"
       /\ last'.calls = <<>>
       /\ UNCHANGED <<stack, mark_stack, current_text, custom_block_id, custom_block_tag>>
C21_UnhandledTagIgnored == [][C21_Step]_vars

\* a tag without a handler has passed over pending text, an active mark and a
\* set side channel
C21_ForeignTagPassed ==
    /\ status = "running" /\ last.kind = "end" /\ last.tag = "section"
    /\ current_text = <<"a">> /\ mark_stack = <<Mark("Strong")>>
    /\ custom_block_id = Some("L1") /\ custom_block_tag = Some("task-list")

-----------------------------------------------------------------------------
(* The local-data side channel and the lists (specification SpecLocal) *)

MaxLocalEvents == 4

LocalStarts ==
    {LocalData("task-list", "L1"), LocalData("decision-list", "L2"),
     El("ul"), El("ol"), El("li")}
LocalEnds == {El("ul"), El("ol"), El("li")}

NextLocal ==
    \/ \E el \in LocalStarts : nev < MaxLocalEvents /\ StartTag(el)
    \/ \E el \in LocalEnds : nev < MaxLocalEvents /\ EndTag(el)
    \/ \E t \in ForeignTexts : nev < MaxLocalEvents /\ Characters(t)
    \/ Emit

SpecLocal == InitBuilder /\ [][NextLocal]_vars

\* C22: a list start tag, ul or ol, stores the local id and local tag left by
\* an adf-local-data marker in its pending-list frame and clears both
\* side-channel fields, so that a later list start finds them empty.
C22_Step ==
    IsStartOf({"ul", "ol"})
    => /\ status' = "running"
       /\ Len(stack') = Len(stack) + 1
       /\ Last(stack').k = "PendingList"
       /\ Last(stack').local_id = custom_block_id
       /\ Last(stack').local_tag = custom_block_tag
       /\ custom_block_id' = None /\ custom_block_tag' = None
C22_ListStartTakesLocalData == [][C22_Step]_vars

-----------------------------------------------------------------------------
(* Lists of mixed items (specification SpecKinds) *)

MaxKindItems == 3

ItemKinds == {"ListItem", "TaskItem", "DecisionItem"}
ListMarkers == {None, Some("task-list"), Some("decision-list")}

\* the list inputs: an optional adf-local-data marker, ul or ol, and up to
\* MaxKindItems items, each a plain li, a li with a checkbox, or a decision
\* item closed by a li end tag
KindInputs ==
    { [marker |-> m, ordered |-> o, items |-> it] :
        m \in ListMarkers, o \in BOOLEAN, it \in SeqsUpTo(ItemKinds, MaxKindItems) }

\* the text of the i-th item: i letters
ItemText(i) == [j \in 1..i |-> "a"]
ItemId(i) == [j \in 1..i |-> "i"]

KindItemTokens(kind, i) ==
    CASE kind = "ListItem" -> NodeTokens("li", NoAttrs, TextTokens(ItemText(i)))
      [] kind = "TaskItem" ->
           NodeTokens("li", NoAttrs,
                      <<StartTok("adf-task-item",
                                 [a \in {"type", "id"} |->
                                    IF a = "id" THEN ItemId(i) ELSE "checkbox"])>>
                      \o TextTokens(ItemText(i)))
      [] kind = "DecisionItem" ->
           NodeTokens("adf-decision-item", [a \in {"id"} |-> ItemId(i)],
                      TextTokens(ItemText(i)))
           \o <<EndTok("li")>>

RECURSIVE KindItemsTokens(_, _)
KindItemsTokens(items, i) ==
    IF i > Len(items) THEN <<>>
    ELSE KindItemTokens(items[i], i) \o KindItemsTokens(items, i + 1)

KindHtml(l) ==
    (IF IsSome(l.marker)
     THEN NodeTokens("adf-local-data", LocalData(Unwrap(l.marker), "L1").attrs, <<>>)
     ELSE <<>>)
    \o NodeTokens(IF l.ordered THEN "ol" ELSE "ul", NoAttrs, KindItemsTokens(l.items, 1))

InitKinds ==
    /\ stack = NewState.stack
    /\ mark_stack = NewState.mark_stack
    /\ current_text = NewState.current_text
    /\ custom_block_id = NewState.custom_block_id
    /\ custom_block_tag = NewState.custom_block_tag
    /\ status = "running"
    /\ doc = None
    /\ last = Event("new", "", <<>>)
    /\ nev = 0
    /\ \E l \in KindInputs : src = Some(l) /\ input = KindHtml(l)
    /\ dom = <<>> /\ parsed = <<>> /\ output = None

SpecKinds == InitKinds /\ [][NextRoundTrip]_vars

\* the items of type t among items, in their order
RECURSIVE ItemsOfType(_, _)
ItemsOfType(items, t) ==
    IF items = <<>> THEN <<>>
    ELSE (IF Head(items).t = t THEN <<Head(items)>> ELSE <<>>)
         \o ItemsOfType(Tail(items), t)

\* C23: closing a pending-list frame appends exactly one node to the parent:
\* a TaskList if the frame's local tag is task-list, otherwise a DecisionList
\* if it is decision-list, otherwise an OrderedList if the frame is ordered,
\* otherwise a BulletList; the node holds exactly the accumulated items of
\* the matching subtype, in their order.
C23_Step ==
    (IsEndOf({"ul", "ol"}) /\ Last(stack).k = "PendingList")
    => LET frame == Last(stack)
           parent == stack[Len(stack) - 1]
           kind == IF frame.local_tag = Some("task-list") THEN "TaskList"
                   ELSE IF frame.local_tag = Some("decision-list") THEN "DecisionList"
                   ELSE IF frame.ordered THEN "OrderedList"
                   ELSE "BulletList"
           subtype == CASE kind = "TaskList" -> "TaskItem"
                        [] kind = "DecisionList" -> "DecisionItem"
                        [] OTHER -> "ListItem"
       IN /\ status' = "running"
          /\ Len(stack') = Len(stack) - 1
          /\ Front(stack') = SubSeq(stack, 1, Len(stack) - 2)
          /\ Last(stack').k = parent.k
          /\ Len(Last(stack').nodes) = Len(parent.nodes) + 1
          /\ Front(Last(stack').nodes) = parent.nodes
          /\ Last(Last(stack').nodes).t = kind
          /\ Last(Last(stack').nodes).content = ItemsOfType(frame.nodes, subtype)
C23_PendingListClosed == [][C23_Step]_vars

\* a marked task list that held a task item, a plain item and a task item
\* has been closed: the TaskList holds the two task items
C23_MixedTaskListClosed ==
    /\ src # None /\ status = "running"
    /\ Unwrap(src).marker = Some("task-list")
    /\ Unwrap(src).items = <<"TaskItem", "ListItem", "TaskItem">>
    /\ last.kind = "end" /\ last.tag = "ul"
    /\ Len(stack) = 1 /\ Len(stack[1].nodes) = 1
    /\ stack[1].nodes[1].t = "TaskList"
    /\ Len(stack[1].nodes[1].content) = 2
    /\ stack[1].nodes[1].content[2].local_id = ItemId(3)

-----------------------------------------------------------------------------
(* Checkbox markers in list items (specification SpecTask) *)

MaxTaskTokens == 4

CheckboxAttrs(checked, id) ==
    [a \in {"type"} \cup (IF checked THEN {"checked"} ELSE {})
            \cup (IF IsSome(id) THEN {"id"} ELSE {}) |->
        CASE a = "type" -> "checkbox" [] a = "id" -> Unwrap(id) [] OTHER -> ""]

TaskTokens ==
    { StartTok("p", NoAttrs), EndTok("p"), CharTok(<<"a">>),
      StartTok("li", NoAttrs), EndTok("li"),
      StartTok("adf-task-item", CheckboxAttrs(TRUE, Some("T1"))),
      StartTok("adf-task-item", CheckboxAttrs(FALSE, None)) }

\* the inputs: <ul><li> followed by up to MaxTaskTokens tokens
TaskInputs ==
    { <<StartTok("ul", NoAttrs), StartTok("li", NoAttrs)>> \o rest :
        rest \in SeqsUpTo(TaskTokens, MaxTaskTokens) }

InitTask ==
    /\ stack = NewState.stack
    /\ mark_stack = NewState.mark_stack
    /\ current_text = NewState.current_text
    /\ custom_block_id = NewState.custom_block_id
    /\ custom_block_tag = NewState.custom_block_tag
    /\ status = "running"
    /\ doc = None
    /\ last = Event("new", "", <<>>)
    /\ nev = 0
    /\ \E i \in TaskInputs : src = Some(i) /\ input = i
    /\ dom = <<>> /\ parsed = <<>> /\ output = None

SpecTask == InitTask /\ [][NextRoundTrip]_vars

\* the next token is a checkbox marker and the top frame is a list item
CheckboxOnListItem ==
    /\ status = "running" /\ input # <<>>
    /\ Head(input).kind = "start" /\ Head(input).el.tag = "adf-task-item"
    /\ Get(Head(input).el.attrs, "type") = Some("checkbox")
    /\ Last(stack).k = "ListItem"

\* C24: a checkbox marker (type=checkbox) that arrives while the top frame
\* is a list item leaves the stack depth and the frames below unchanged and
\* replaces the list-item frame by a task-item frame with the list item's
\* children, state Done iff the checked attribute is present, and the id
\* attribute as local id.
C24_Step ==
    (CheckboxOnListItem /\ IsEventStep)
    => LET attrs == Head(input).el.attrs IN
       /\ status' = "running"
       /\ Len(stack') = Len(stack)
       /\ Front(stack') = Front(stack)
       /\ Last(stack') =
            TaskItemFrame(Last(stack).nodes,
                          IF "checked" \in DOMAIN attrs THEN "DONE" ELSE "TODO",
                          IF "id" \in DOMAIN attrs THEN attrs["id"] ELSE "")
C24_ListItemBecomesTaskItem == [][C24_Step]_vars

\* a checked marker with id T1 has turned a list item that held a paragraph
\* into a task item
C24_CheckedTaskItem ==
    /\ status = "running"
    /\ last.kind = "start" /\ last.tag = "adf-task-item"
    /\ Len(stack) = 3
    /\ Last(stack) = TaskItemFrame(<<Paragraph(Some(<<Text(<<"a">>, None)>>))>>, "DONE", "T1")

-----------------------------------------------------------------------------
(* Decision markers in list items (specification SpecDecision) *)

MaxDecisionTokens == 4

DecisionMarker == StartTok("adf-decision-item", [a \in {"id"} |-> "D1"])

DecisionTokens ==
    { DecisionMarker, EndTok("adf-decision-item"), CharTok(<<"a">>),
      StartTok("p", NoAttrs), EndTok("p"), EndTok("li") }

\* the inputs: <ul><li> followed by up to MaxDecisionTokens tokens
DecisionInputs ==
    { <<StartTok("ul", NoAttrs), StartTok("li", NoAttrs)>> \o rest :
        rest \in SeqsUpTo(DecisionTokens, MaxDecisionTokens) }

InitDecision ==
    /\ stack = NewState.stack
    /\ mark_stack = NewState.mark_stack
    /\ current_text = NewState.current_text
    /\ custom_block_id = NewState.custom_block_id
    /\ custom_block_tag = NewState.custom_block_tag
    /\ status = "running"
    /\ doc = None
    /\ last = Event("new", "", <<>>)
    /\ nev = 0
    /\ \E i \in DecisionInputs : src = Some(i) /\ input = i
    /\ dom = <<>> /\ parsed = <<>> /\ output = None

SpecDecision == InitDecision /\ [][NextRoundTrip]_vars

\* the tokens fed so far
Consumed == SubSeq(Unwrap(src), 1, Len(Unwrap(src)) - Len(input))

\* C25: a decision marker (adf-decision-item start tag, text, end tag) in a
\* list item turns the list-item frame into a decision-item frame with the
\* marker's id, at the same depth, and the following li end tag appends
\* exactly one DecisionItem holding the marker's text to the pending list
\* without a fault.
C25_Step ==
    /\ (/\ IsEventStep /\ input # <<>> /\ Head(input) = DecisionMarker
        /\ Last(stack).k = "ListItem")
       => /\ status' = "running"
          /\ Len(stack') = Len(stack)
          /\ Front(stack') = Front(stack)
          /\ Last(stack').k = "DecisionItem"
          /\ Last(stack').local_id = "D1"
    /\ (/\ IsEventStep /\ input # <<>> /\ Head(input) = EndTok("li")
        /\ Consumed = <<StartTok("ul", NoAttrs), StartTok("li", NoAttrs), DecisionMarker,
                        CharTok(<<"a">>), EndTok("adf-decision-item")>>)
       => /\ status' = "running"
          /\ Len(stack') = 2
          /\ Last(stack').k = "PendingList"
          /\ Last(stack').nodes = <<DecisionItem(<<Text(<<"a">>, None)>>, "D1")>>
C25_DecisionMarkerConverts == [][C25_Step]_vars

-----------------------------------------------------------------------------
(* Pseudo-elements without their required attributes (specification SpecAttrs) *)

MaxAttrTokens == 3

Attrs1(name, value) == [a \in {name} |-> value]
Attrs2(n1, v1, n2, v2) == [a \in {n1, n2} |-> IF a = n1 THEN v1 ELSE v2]

AttrTokens ==
    { StartTok("li", NoAttrs), CharTok(<<"a">>),
      StartTok("adf-task-item", NoAttrs),
      StartTok("adf-task-item", Attrs1("type", "radio")),
      StartTok("adf-task-item", Attrs1("type", "checkbox")),
      StartTok("a", NoAttrs),
      StartTok("a", Attrs1("data-inline-card", "")),
      StartTok("a", Attrs2("data-inline-card", "", "href", "u")),
      StartTok("a", Attrs1("href", "u")),
      StartTok("img", NoAttrs),
      StartTok("adf-media-single", NoAttrs),
      StartTok("adf-media-single", Attrs1("data-layout", "center")),
      EndTok("adf-media-single") }

AttrInputs == SeqsUpTo(AttrTokens, MaxAttrTokens)

InitAttrs ==
    /\ stack = NewState.stack
    /\ mark_stack = NewState.mark_stack
    /\ current_text = NewState.current_text
    /\ custom_block_id = NewState.custom_block_id
    /\ custom_block_tag = NewState.custom_block_tag
    /\ status = "running"
    /\ doc = None
    /\ last = Event("new", "", <<>>)
    /\ nev = 0
    /\ \E i \in AttrInputs : src = Some(i) /\ input = i
    /\ dom = <<>> /\ parsed = <<>> /\ output = None

SpecAttrs == InitAttrs /\ [][NextRoundTrip]_vars

\* the token is a pseudo-element without an attribute it requires, for the
\* stack it arrives on
LacksRequiredAttr(tok, stk) ==
    \/ /\ tok.kind = "start" /\ tok.el.tag = "adf-task-item"
       /\ \E i \in 1..Len(stk) : stk[i].k = "ListItem"
       /\ Get(tok.el.attrs, "type") # Some("checkbox")
    \/ /\ tok.kind = "start" /\ tok.el.tag = "a"
       /\ "href" \notin DOMAIN tok.el.attrs
       /\ \/ "data-inline-card" \in DOMAIN tok.el.attrs
          \/ (stk # <<>> /\ Last(stk).k = "MediaBlock")
    \/ /\ tok.kind = "end" /\ tok.el.tag = "adf-media-single"
       /\ stk # <<>>
       /\ Last(stk).k = "MediaBlock" /\ Last(stk).ty = "MediaSingle"
       /\ "data-layout" \notin DOMAIN Last(stk).attrs

\* C26: a checkbox marker in a list item without type=checkbox, an
\* inline-card anchor without href, a media link anchor without href and a
\* media-single wrapper without data-layout abort the conversion with a
\* fault; no node is produced for them.
C26_Step ==
    (IsEventStep /\ input # <<>> /\ LacksRequiredAttr(Head(input), stack))
    => status' = "panicked"
C26_MissingAttributeFaults == [][C26_Step]_vars

\* the end tag of a media-single wrapper without data-layout that holds an
\* image has faulted
C26_NoLayoutFaulted ==
    /\ status = "panicked" /\ src # None
    /\ Consumed = <<StartTok("adf-media-single", NoAttrs), StartTok("img", NoAttrs),
                    EndTok("adf-media-single")>>

-----------------------------------------------------------------------------
(* The summary of an expand (specification SpecSummary) *)

MaxSummaryEvents == 5

SummaryStarts ==
    {El("details"), Element("details", Attrs1("data-nested", "")), El("div"), El("p")}
SummaryEnds == {El("summary"), El("details"), El("div")}
SummaryTexts == {<<"t">>, <<" ">>}

NextSummary ==
    \/ \E el \in SummaryStarts : nev < MaxSummaryEvents /\ StartTag(el)
    \/ \E el \in SummaryEnds : nev < MaxSummaryEvents /\ EndTag(el)
    \/ \E t \in SummaryTexts : nev < MaxSummaryEvents /\ Characters(t)
    \/ Emit

SpecSummary == InitBuilder /\ [][NextSummary]_vars

IsExpandFrame(f) == f.k = "CustomBlock" /\ f.ty \in {"Expand", "NestedExpand"}

\* i is the position of the topmost expand or nested-expand frame of stk
IsNearestExpand(stk, i) ==
    /\ i \in 1..Len(stk) /\ IsExpandFrame(stk[i])
    /\ \A j \in (i + 1)..Len(stk) : ~IsExpandFrame(stk[j])

\* C27: a summary end tag leaves the stack depth and the children of every
\* frame unchanged, clears the pending text, and stores the trimmed pending
\* text as the summary of the topmost enclosing expand or nested-expand
\* frame; with no such frame open it modifies no frame.
C27_Step ==
    IsEndOf({"summary"})
    => /\ status' = "running"
       /\ current_text' = <<>>
       /\ Len(stack') = Len(stack)
       /\ \A i \in 1..Len(stack) :
            /\ stack'[i].k = stack[i].k
            /\ stack'[i].nodes = stack[i].nodes
            /\ IF IsNearestExpand(stack, i)
               THEN /\ stack'[i].ty = stack[i].ty
                    /\ DOMAIN stack'[i].attrs = DOMAIN stack[i].attrs \cup {"data-summary"}
                    /\ stack'[i].attrs["data-summary"] = Trim(current_text)
                    /\ \A n \in DOMAIN stack[i].attrs \ {"data-summary"} :
                         stack'[i].attrs[n] = stack[i].attrs[n]
               ELSE stack'[i] = stack[i]
C27_SummaryStoredOnExpand == [][C27_Step]_vars

\* the summary end tag has stored the text t on an expand frame that has a
\* div frame above it
C27_SummaryPastDiv ==
    /\ status = "running" /\ last.kind = "end" /\ last.tag = "summary"
    /\ Len(stack) = 3
    /\ IsExpandFrame(stack[2])
    /\ Get(stack[2].attrs, "data-summary") = Some(<<"t">>)
    /\ stack[3].k = "CustomBlock" /\ stack[3].ty = "Div"

-----------------------------------------------------------------------------
(* The end of a div (specification SpecDiv) *)

MaxDivEvents == 5

DivStarts ==
    {El("div"), Element("div", StyleAttr("color", "red")),
     Element("div", StyleAttr("background-color", "blue")),
     El("p"), El("br"), El("blockquote")}
DivEnds == {El("div"), El("p")}
DivTexts == {<<"a">>}

NextDiv ==
    \/ \E el \in DivStarts : nev < MaxDivEvents /\ StartTag(el)
    \/ \E el \in DivEnds : nev < MaxDivEvents /\ EndTag(el)
    \/ \E t \in DivTexts : nev < MaxDivEvents /\ Characters(t)
    \/ Emit

SpecDiv == InitBuilder /\ [][NextDiv]_vars

IsInlineNode(n) == n.t \in {"Text", "HardBreak"}

RECURSIVE TextOf(_)
TextOf(nodes) ==
    IF nodes = <<>> THEN <<>>
    ELSE (IF Head(nodes).t = "Text" THEN Head(nodes).text ELSE <<>>) \o TextOf(Tail(nodes))

ColorMarksOf(attrs) ==
    LET style == IF "style" \in DOMAIN attrs THEN attrs["style"] ELSE <<>>
        RulesFor(name) == SelectSeq(style, LAMBDA r : r[1] = name)
    IN (IF RulesFor("color") # <<>> THEN <<TextColor(RulesFor("color")[1][2])>> ELSE <<>>)
       \o (IF RulesFor("background-color") # <<>>
           THEN <<BackgroundColor(RulesFor("background-color")[1][2])>> ELSE <<>>)

\* C28: a div end tag with a div frame on top lowers the stack depth by
\* exactly one and gives the parent: nothing if the div has no children; one
\* Text with the colour marks and the concatenated text if the children are
\* all Text or HardBreak and the style sets color or background-color; one
\* Paragraph holding them if they are all Text or HardBreak and no colour is
\* set; the children themselves, unchanged and in order, if any is a block.
C28_Step ==
    (/\ IsEndOf({"div"})
     /\ stack # <<>> /\ Last(stack).k = "CustomBlock" /\ Last(stack).ty = "Div")
    => LET nodes == Last(stack).nodes
           marks == ColorMarksOf(Last(stack).attrs)
           parent == stack[Len(stack) - 1]
           all_inline == \A i \in 1..Len(nodes) : IsInlineNode(nodes[i])
           emitted == IF nodes = <<>> THEN <<>>
                      ELSE IF all_inline /\ marks # <<>>
                      THEN <<Text(TextOf(nodes), Some(marks))>>
                      ELSE IF all_inline THEN <<Paragraph(Some(nodes))>>
                      ELSE nodes
       IN /\ status' = "running"
          /\ Len(stack') = Len(stack) - 1
          /\ Front(stack') = SubSeq(stack, 1, Len(stack) - 2)
          /\ Last(stack').nodes = parent.nodes \o emitted
C28_DivEnd == [][C28_Step]_vars

-----------------------------------------------------------------------------
(* Table sections (specification SpecSection) *)

MaxSectionRows == 2

SectionTags == {"thead", "tbody"}

\* a row: the number of its cells, whether they are th, and the section
\* element it is wrapped in, if any
RowShapes ==
    { [cells |-> n, header |-> h, section |-> sec] :
        n \in 1..2, h \in BOOLEAN, sec \in {None} \cup {Some(t) : t \in SectionTags} }

\* the table inputs: 1..MaxSectionRows rows, with or without white space
\* between the tags
SectionInputs ==
    { [rows |-> rs, spaced |-> sp] :
        rs \in SeqsUpTo(RowShapes, MaxSectionRows) \ {<<>>}, sp \in BOOLEAN }

Gap(spaced) == IF spaced THEN <<CharTok(<<"\n", " ">>)>> ELSE <<>>

RECURSIVE CellsTokens(_, _, _)
CellsTokens(n, header, i) ==
    IF i > n THEN <<>>
    ELSE NodeTokens(IF header THEN "th" ELSE "td", NoAttrs, TextTokens(ItemText(i)))
         \o CellsTokens(n, header, i + 1)

RowTokens(row, spaced) ==
    LET tr == NodeTokens("tr", NoAttrs, CellsTokens(row.cells, row.header, 1))
    IN IF IsSome(row.section)
       THEN NodeTokens(Unwrap(row.section), NoAttrs, Gap(spaced) \o tr \o Gap(spaced))
       ELSE tr

RECURSIVE RowsTokens(_, _)
RowsTokens(rows, spaced) ==
    IF rows = <<>> THEN <<>>
    ELSE Gap(spaced) \o RowTokens(Head(rows), spaced) \o RowsTokens(Tail(rows), spaced)

SectionHtml(l) == NodeTokens("table", NoAttrs, RowsTokens(l.rows, l.spaced) \o Gap(l.spaced))

InitSection ==
    /\ stack = NewState.stack
    /\ mark_stack = NewState.mark_stack
    /\ current_text = NewState.current_text
    /\ custom_block_id = NewState.custom_block_id
    /\ custom_block_tag = NewState.custom_block_tag
    /\ status = "running"
    /\ doc = None
    /\ last = Event("new", "", <<>>)
    /\ nev = 0
    /\ \E l \in SectionInputs : src = Some(l) /\ input = SectionHtml(l)
    /\ dom = <<>> /\ parsed = <<>> /\ output = None

SpecSection == InitSection /\ [][NextRoundTrip]_vars

\* the tokens without the thead and tbody tags
IsSectionTok(tok) == tok.kind \in {"start", "end"} /\ tok.el.tag \in SectionTags
WithoutSections(toks) == SelectSeq(toks, LAMBDA tok : ~IsSectionTok(tok))

\* the builder state after the tokens toks, from state s
RECURSIVE Replay(_, _)
Replay(s, toks) ==
    IF toks = <<>> \/ s.panic THEN s
    ELSE LET tok == Head(toks)
             next == CASE tok.kind = "start" -> process_start_tag(s, tok.el).st
                       [] tok.kind = "end" -> process_end_tag(s, tok.el).st
                       [] OTHER -> process_characters(s, tok.text)
         IN Replay([next EXCEPT !.ret = TRUE], Tail(toks))

\* the tokens of the input fed so far
Fed == SubSeq(SectionHtml(Unwrap(src)), 1, Len(SectionHtml(Unwrap(src))) - Len(input))

\* C29: thead and tbody are transparent: at every point of the parse the
\* builder state, and so the frame stack and the rows of the table frame, is
\* the one the same tokens without the section tags produce, and the
\* document emitted is the one emitted for the input without section tags.
C29_SectionsTransparent ==
    src # None
    => LET plain == Replay(NewState, WithoutSections(Fed))
       IN /\ status # "panicked" /\ ~plain.panic
          /\ status = "running"
             => /\ stack = plain.stack
                /\ current_text = plain.current_text
                /\ mark_stack = plain.mark_stack
          /\ status = "emitted"
             => /\ ~emit_panics(plain)
                /\ doc = Some(emit_doc(plain))

\* a table with a header row in thead and a body row in tbody has been
\* emitted: one Table of two rows, the second of two cells
C29_HeadAndBodyEmitted ==
    /\ status = "emitted" /\ src # None
    /\ Len(Unwrap(src).rows) = 2
    /\ Unwrap(src).rows[1].section = Some("thead")
    /\ Unwrap(src).rows[2].section = Some("tbody")
    /\ Unwrap(src).rows[2].cells = 2
    /\ Len(Unwrap(doc).content) = 1
    /\ Unwrap(doc).content[1].t = "Table"
    /\ Len(Unwrap(doc).content[1].content) = 2
    /\ Len(Unwrap(doc).content[1].content[2].content) = 2

-----------------------------------------------------------------------------
(* The text of a code block (specification SpecPre) *)

MaxPreTokens == 3

PreTokens ==
    { CharTok(<<"a">>), CharTok(<<" ">>), CharTok(<<" ", "b", "\n">>),
      StartTok("br", NoAttrs), StartTok("strong", NoAttrs), EndTok("strong") }

\* the inputs: <pre>, up to MaxPreTokens tokens, </pre>
PreInputs == SeqsUpTo(PreTokens, MaxPreTokens)
PreHtml(body) == NodeTokens("pre", NoAttrs, body)

InitPre ==
    /\ stack = NewState.stack
    /\ mark_stack = NewState.mark_stack
    /\ current_text = NewState.current_text
    /\ custom_block_id = NewState.custom_block_id
    /\ custom_block_tag = NewState.custom_block_tag
    /\ status = "running"
    /\ doc = None
    /\ last = Event("new", "", <<>>)
    /\ nev = 0
    /\ \E body \in PreInputs : src = Some(body) /\ input = PreHtml(body)
    /\ dom = <<>> /\ parsed = <<>> /\ output = None

SpecPre == InitPre /\ [][NextRoundTrip]_vars

\* the character data of the tokens, in order, with one newline per br
RECURSIVE CharacterData(_)
CharacterData(toks) ==
    IF toks = <<>> THEN <<>>
    ELSE LET tok == Head(toks)
         IN (CASE tok.kind = "chars" -> tok.text
               [] tok.kind = "start" /\ tok.el.tag = "br" -> <<"\n">>
               [] OTHER -> <<>>)
            \o CharacterData(Tail(toks))

\* C30: text flushed into a code-block frame is kept as received, white
\* space and white-space-only chunks included: the emitted code block's text
\* is the concatenation, in order, of the character data between <pre> and
\* </pre>, with one newline per br.
C30_CodeBlockTextVerbatim ==
    (src # None /\ status # "running")
    => /\ status = "emitted"
       /\ Unwrap(doc).content =
            <<CodeBlock(None, Some(<<Text(CharacterData(Unwrap(src)), None)>>))>>

-----------------------------------------------------------------------------
(* End tags of formatting elements (specification SpecMarks) *)

MaxPopEvents == 4

MarkStarts ==
    {El("strong"), El("em"), El("u"), El("span"),
     Element("span", StyleAttr("color", "red")),
     El("a"), Element("a", Attrs1("href", "u"))}
MarkEnds == {El("strong"), El("em"), El("u"), El("span"), El("a")}

NextMarks ==
    \/ \E el \in MarkStarts : nev < MaxPopEvents /\ StartTag(el)
    \/ \E el \in MarkEnds : nev < MaxPopEvents /\ EndTag(el)
    \/ nev < MaxPopEvents /\ Characters(<<"a">>)
    \/ Emit

SpecMarks == InitBuilder /\ [][NextMarks]_vars

\* the kinds of mark the start tag of a formatting element pushes
KindsOfTag(tag) ==
    CASE tag = "strong" -> {"Strong"}
      [] tag = "em" -> {"Em"}
      [] tag = "u" -> {"Underline"}
      [] tag = "a" -> {"Link"}
      [] tag = "span" -> {"TextColor", "BackgroundColor"}
      [] OTHER -> {}

\* marks without its last mark of one of the kinds
WithoutLastOf(marks, kinds) ==
    LET at == {i \in 1..Len(marks) : marks[i].m \in kinds}
    IN IF at = {} THEN marks
       ELSE LET pos == CHOOSE i \in at : \A j \in at : j <= i
            IN SubSeq(marks, 1, pos - 1) \o SubSeq(marks, pos + 1, Len(marks))

\* C31: the end tag of a formatting element removes the most recently
\* pushed mark of that element's own kind, wherever it sits in the mark
\* stack, and leaves the other marks and their order unchanged; with no
\* mark of that kind active it removes nothing.
C31_Step ==
    IsEndOf({"strong", "em", "u", "span", "a"})
    => mark_stack' = WithoutLastOf(mark_stack, KindsOfTag(last'.tag))
C31_EndTagPopsOwnMark == [][C31_Step]_vars

-----------------------------------------------------------------------------
(* Repeated marks and the code mark (specification SpecDedup) *)

MaxDedupEvents == 5

DedupStarts == {El("p"), El("strong"), El("em"), El("code")}
DedupEnds == {El("p"), El("strong"), El("code")}

NextDedup ==
    \/ \E el \in DedupStarts : nev < MaxDedupEvents /\ StartTag(el)
    \/ \E el \in DedupEnds : nev < MaxDedupEvents /\ EndTag(el)
    \/ nev < MaxDedupEvents /\ Characters(<<"a">>)
    \/ Emit

SpecDedup == InitBuilder /\ [][NextDedup]_vars

\* the mark lists of the Text nodes held by the frames of the stack, directly
\* or inside a Paragraph node
TextMarksIn(nodes) ==
    { Unwrap(nodes[i].marks) :
        i \in {j \in 1..Len(nodes) : nodes[j].t = "Text" /\ IsSome(nodes[j].marks)} }
ParagraphsIn(nodes) ==
    { Unwrap(nodes[i].content) :
        i \in {j \in 1..Len(nodes) : nodes[j].t = "Paragraph" /\ IsSome(nodes[j].content)} }
TextMarks ==
    UNION { TextMarksIn(stack[i].nodes) \cup UNION { TextMarksIn(c) : c \in ParagraphsIn(stack[i].nodes) } :
            i \in 1..Len(stack) }

NoMarkTwice(marks) == \A i, j \in 1..Len(marks) : marks[i] = marks[j] => i = j
CodeAlone(marks) ==
    (\E i \in 1..Len(marks) : marks[i].m = "Code") => Len(marks) = 1

\* C32: pushing a mark that is already active is a no-op: the mark stack
\* never holds a mark twice and no Text node carries the same mark twice.
C32_NoMarkTwice ==
    status = "running"
    => /\ NoMarkTwice(mark_stack)
       /\ \A marks \in TextMarks : NoMarkTwice(marks)

\* C33: an active code mark is the only active mark: pushing code clears the
\* other marks, no mark is pushed next to code, and no Text node carries
\* code together with another mark.
C33_CodeMarkAlone ==
    status = "running"
    => /\ CodeAlone(mark_stack)
       /\ \A marks \in TextMarks : CodeAlone(marks)

-----------------------------------------------------------------------------
(* Flushing before a push (specification SpecFlush) *)

MaxFlushEvents == 4

FlushStarts ==
    {El("p"), El("ul"), El("li"), El("pre"), El("div"), El("h1"), El("strong"),
     Element("a", Attrs1("href", "u")),
     Element("adf-decision-item", Attrs1("id", "D1")),
     Element("adf-task-item", Attrs1("type", "checkbox"))}
FlushEnds == {El("p"), El("li")}

NextFlush ==
    \/ \E el \in FlushStarts : nev < MaxFlushEvents /\ StartTag(el)
    \/ \E el \in FlushEnds : nev < MaxFlushEvents /\ EndTag(el)
    \/ nev < MaxFlushEvents /\ Characters(<<"a">>)
    \/ Emit

SpecFlush == InitBuilder /\ [][NextFlush]_vars

\* the step is a start tag that has opened a frame
OpensFrame ==
    /\ IsEventStep /\ last'.kind = "start" /\ status' = "running"
    /\ \/ Len(stack') = Len(stack) + 1
       \/ last'.tag = "adf-task-item" /\ stack' # <<>> /\ Last(stack').k = "TaskItem"

\* the step is a start tag that has pushed a mark
PushesMark ==
    /\ IsEventStep /\ last'.kind = "start" /\ status' = "running"
    /\ Len(mark_stack') = Len(mark_stack) + 1

\* C34: a start tag that opens a frame or pushes a mark first flushes the
\* pending text into the frame that was on top, with the marks active before
\* the tag: afterwards no text is pending, the frames that were on the stack
\* hold the flushed text, and the marks below the new one are the old ones.
C34_Step ==
    /\ (OpensFrame \/ PushesMark) => current_text' = <<>>
    /\ (OpensFrame /\ Len(stack') = Len(stack) + 1)
       => SubSeq(stack', 1, Len(stack)) = flush_text(Cur).stack
    /\ PushesMark
       => /\ stack' = flush_text(Cur).stack
          /\ Front(mark_stack') = mark_stack
C34_FlushBeforePush == [][C34_Step]_vars

\* C35: an expand or nested-expand frame left open at the end of the input
\* is closed by emit into the node its details end tag would have produced:
\* an Expand or NestedExpand whose title is the text the summary end tag
\* captured, without a fault.
C35_Step ==
    (/\ status = "running" /\ last'.kind = "emit"
     /\ Len(stack) = 2 /\ stack[1].k = "Document" /\ IsExpandFrame(stack[2])
     /\ "data-summary" \in DOMAIN stack[2].attrs)
    => LET closed == details_end_handler(Cur, El("details"))
       IN /\ status' = "emitted"
          /\ doc' # None
          /\ Unwrap(doc').content = closed.stack[1].nodes
C35_SameTitleHoweverClosed == [][C35_Step]_vars

-----------------------------------------------------------------------------
(* Empty paragraphs (specification SpecEmpty) *)

MaxEmptyEvents == 4

EmptyStarts ==
    {El("p"), El("blockquote"), El("li"), El("td"), El("th"), El("div"), El("details"),
     Element("details", Attrs1("data-nested", "")), El("figure")}
EmptyEnds == {El("p"), El("details"), El("div")}

NextEmpty ==
    \/ \E el \in EmptyStarts : nev < MaxEmptyEvents /\ StartTag(el)
    \/ \E el \in EmptyEnds : nev < MaxEmptyEvents /\ EndTag(el)
    \/ \E t \in {<<"a">>, <<" ">>} : nev < MaxEmptyEvents /\ Characters(t)
    \/ Emit

SpecEmpty == InitBuilder /\ [][NextEmpty]_vars

\* some node of nodes, at any depth, is a Paragraph without content
RECURSIVE HasEmptyParagraph(_)
HasEmptyParagraph(nodes) ==
    \E i \in 1..Len(nodes) :
        \/ IsEmptyParagraph(nodes[i])
        \/ /\ nodes[i].t \in {"Blockquote", "Expand", "NestedExpand", "Panel"}
           /\ HasEmptyParagraph(nodes[i].content)

\* C36: closing a paragraph frame without children appends nothing to its
\* parent, whatever the parent's kind, and no Paragraph with empty content
\* appears in a parsed document.
C36_Step ==
    /\ (/\ IsEndOf({"p"}) /\ stack # <<>> /\ Last(stack) = Frame("Paragraph", <<>>)
        /\ Trim(current_text) = <<>> /\ status' = "running")
       => /\ Len(stack') = Len(stack) - 1
          /\ stack' = Front(stack)
    /\ (last'.kind = "emit" /\ status' = "emitted")
       => ~HasEmptyParagraph(Unwrap(doc').content)
C36_NoEmptyParagraph == [][C36_Step]_vars

-----------------------------------------------------------------------------
(* Text flushed at the document root or in a custom block (specification SpecEmpty) *)

\* the top frame is the document root or a div, expand or panel custom block
TopKeepsLooseText ==
    /\ stack # <<>>
    /\ \/ Last(stack).k = "Document"
       \/ Last(stack).k = "CustomBlock" /\ Last(stack).ty \in {"Div", "Expand", "Panel"}

\* the builder with the pending text placed by push_node_to_parent
TextKept ==
    LET marks == IF mark_stack = <<>> THEN None ELSE Some(mark_stack)
    IN push_node_to_parent([Cur EXCEPT !.current_text = <<>>], Text(current_text, marks))

\* C37: a tag that flushes non-whitespace text while the top frame is the
\* document root or a div, expand or panel custom block leaves the builder as
\* if the text had been placed, as a Text node in a Paragraph of that frame,
\* by push_node_to_parent before the tag
C37_Step ==
    (/\ IsEventStep /\ last'.kind \in {"start", "end"}
     /\ TopKeepsLooseText /\ Trim(current_text) # <<>>
     /\ current_text' = <<>> /\ status' = "running")
    => \/ /\ last'.kind = "start"
          /\ \E el \in EmptyStarts :
                /\ el.tag = last'.tag
                /\ stack' = process_start_tag(TextKept, el).st.stack
       \/ /\ last'.kind = "end"
          /\ \E el \in EmptyEnds :
                /\ el.tag = last'.tag
                /\ stack' = process_end_tag(TextKept, el).st.stack
C37_LooseTextKept == [][C37_Step]_vars

-----------------------------------------------------------------------------
(* The place of hoisted children (specification SpecSanitize) *)

\* a p element that sanitize_node hoists: a child is a known block and the
\* parent holds the paragraph
IsHoisted(h, p) ==
    /\ h[p].name = "p"
    /\ \E i \in 1..Len(h[p].children) : is_known_block_element(h, h[p].children[i])
    /\ h[p].parent # 0
    /\ Position(h[h[p].parent].children, p, 1) # 0

\* a stands before b in ids
Before(ids, a, b) ==
    /\ Position(ids, a, 1) # 0
    /\ Position(ids, a, 1) < Position(ids, b, 1)

\* C38: when the sanitizer hoists the children of a paragraph into the parent
\* of the paragraph, the hoisted children keep their relative order and stand
\* where the paragraph stood: after the children of the parent that preceded
\* the paragraph and before those that followed it
C38_HoistKeepsPlaceAndOrder ==
    output # None
    => \A p \in InDocument(parsed) :
          IsHoisted(parsed, p)
          => LET parent == parsed[p].parent
                 kids == parsed[p].children
                 sibs == parsed[parent].children
                 index == Position(sibs, p, 1)
                 after == dom[parent].children
             IN /\ \A i, j \in 1..Len(kids) : i < j => Before(after, kids[i], kids[j])
                /\ \A i \in 1..Len(sibs), k \in 1..Len(kids) :
                      Position(after, sibs[i], 1) # 0
                      => /\ i < index => Before(after, sibs[i], kids[k])
                         /\ i > index => Before(after, kids[k], sibs[i])

-----------------------------------------------------------------------------
(* Tables through adf_to_html and html_to_adf (specification SpecTableTrip) *)

MaxTripRows == 3

\* a row of one or two cells, each a header cell or a body cell
TripCell(header) ==
    IF header THEN TableHeader(<<Para(<<"a">>)>>, None) ELSE TableCell(<<Para(<<"a">>)>>, None)
TripRows ==
    { TableRow([i \in 1..Len(hs) |-> TripCell(hs[i])]) : hs \in SeqsUpTo(BOOLEAN, 2) \ {<<>>} }

\* the tables of 1..MaxTripRows rows, header rows and body rows in any order
TripTables(max_rows) ==
    { DocOf(<<Table(None, rows)>>) : rows \in SeqsUpTo(TripRows, max_rows) \ {<<>>} }

InitTableTrip ==
    /\ stack = NewState.stack
    /\ mark_stack = NewState.mark_stack
    /\ current_text = NewState.current_text
    /\ custom_block_id = NewState.custom_block_id
    /\ custom_block_tag = NewState.custom_block_tag
    /\ status = "running"
    /\ doc = None
    /\ last = Event("new", "", <<>>)
    /\ nev = 0
    /\ \E T \in TripTables(MaxTripRows) : src = Some(T) /\ input = adf_to_html(<<T>>)
    /\ dom = <<>> /\ parsed = <<>> /\ output = None

SpecTableTrip == InitTableTrip /\ [][NextRoundTrip]_vars

\* the kinds of the cells of a row, in order
CellKinds(row) == [i \in 1..Len(row.content) |-> row.content[i].t]

\* the rows of the one table of a document
RowsOf(d) == d.content[1].content

\* C39: rendering a table and parsing the result keeps the number of rows,
\* the order of the rows, whatever the mix of header rows and body rows, and
\* the kind and position of every cell
C39_TableRoundTrip ==
    (src # None /\ status # "running")
    => /\ status = "emitted" /\ doc # None
       /\ Len(Unwrap(doc).content) = 1 /\ Unwrap(doc).content[1].t = "Table"
       /\ Len(RowsOf(Unwrap(doc))) = Len(RowsOf(Unwrap(src)))
       /\ \A i \in 1..Len(RowsOf(Unwrap(src))) :
             CellKinds(RowsOf(Unwrap(doc))[i]) = CellKinds(RowsOf(Unwrap(src))[i])

-----------------------------------------------------------------------------
(* clean_surrounding_text on its own (specification SpecClean) *)

MaxTextLen == 5

TextChars == {"a", " ", "\n"}

InitClean ==
    /\ stack = NewState.stack
    /\ mark_stack = NewState.mark_stack
    /\ current_text = NewState.current_text
    /\ custom_block_id = NewState.custom_block_id
    /\ custom_block_tag = NewState.custom_block_tag
    /\ status = "running"
    /\ doc = None
    /\ last = Event("new", "", <<>>)
    /\ nev = 0
    /\ input = <<>>
    /\ \E text \in SeqsUpTo(TextChars, MaxTextLen) : src = Some(text)
    /\ dom = <<>> /\ parsed = <<>> /\ output = None

\* a call clean_surrounding_text(text); output holds the returned slice
CleanSurroundingText ==
    /\ output = None
    /\ output' = Some(clean_surrounding_text(Unwrap(src)))
    /\ UNCHANGED <<dom, parsed>>
    /\ UNCHANGED builder_vars

NextClean == CleanSurroundingText

SpecClean == InitClean /\ [][NextClean]_vars

\* the index of the first and of the last newline of text, 0 without one
FirstNewline(text) ==
    IF \E i \in 1..Len(text) : text[i] = "\n"
    THEN CHOOSE i \in 1..Len(text) : text[i] = "\n" /\ \A j \in 1..(i - 1) : text[j] # "\n"
    ELSE 0
LastNewline(text) ==
    IF \E i \in 1..Len(text) : text[i] = "\n"
    THEN CHOOSE i \in 1..Len(text) : text[i] = "\n" /\ \A j \in (i + 1)..Len(text) : text[j] # "\n"
    ELSE 0

OnlyWhitespace(text, from, to) == \A i \in from..to : IsWhitespace(text[i])

\* the number of characters of the leading prefix to remove: up to and
\* including the first newline, when only white space precedes it
LeadingCut(text) ==
    LET f == FirstNewline(text)
    IN IF f # 0 /\ OnlyWhitespace(text, 1, f - 1) THEN f ELSE 0

\* the number of characters of the trailing suffix to remove: from the last
\* newline on, when only white space follows it
TrailingCut(text) ==
    LET l == LastNewline(text)
    IN IF l # 0 /\ OnlyWhitespace(text, l + 1, Len(text)) THEN Len(text) - l + 1 ELSE 0

\* C40: clean_surrounding_text(s) is s without the leading prefix up to and
\* including the first newline when only white space precedes that newline,
\* and without the trailing suffix from the last newline on when only white
\* space follows it; everything else is unchanged, and when the two cuts
\* overlap the result is the empty string
C40_CleanSurroundingText ==
    (src # None /\ output # None)
    => LET text == Unwrap(src)
           lead == LeadingCut(text)
           trail == TrailingCut(text)
       IN Unwrap(output) = IF lead + trail > Len(text) THEN <<>>
                           ELSE SubSeq(text, lead + 1, Len(text) - trail)

\* a text has been cleaned on both sides, white space inside it kept
C40_BothSidesCut ==
    /\ src = Some(<<" ", "\n", "a", " ", "\n">>)
    /\ output = Some(<<"a", " ">>)

====
